---- MODULE Spec2Model ----
(***************************************************************************)
(* State-machine model of client/app.py (BlueK9 client): the orchestration *)
(* of the background tasks (area scan loop, continuous geolocation sweep,  *)
(* trace monitor, per-address tracking sessions) and the merge of          *)
(* observations into the device registry.                                  *)
(*                                                                         *)
(* Request handlers run to completion as one action; every background task *)
(* is a thread whose position (pc) advances one suspension point at a time *)
(* and interleaves freely with the handlers and with the other tasks.      *)
(*                                                                         *)
(* Fifteen specifications share the state:                                 *)
(*   SpecScan   start_scan / stop_scan and the system-wide loops           *)
(*   SpecTrack  start_active_geo / stop_active_geo and active_geo_track    *)
(*   SpecMerge  the merges into devices and btmon_device_cache             *)
(*   SpecTrace  parse_btmon_line / save_btmon_device_data, line by line    *)
(*   SpecEst    calculate_geolocation / estimate_emitter_location          *)
(*   SpecDir    add_direction_reading / calculate_direction_to_target      *)
(*   SpecSurvey start_target_survey / stop_target_survey, survey_worker    *)
(*   SpecSweep  target_survey, one sweep probe by probe                    *)
(*   SpecRace   process_found_device calls in flight, step by step         *)
(*   SpecWatch  SpecRace with clear_devices and the watchlist requests     *)
(*   SpecLocate the assignments of the stored location estimate            *)
(*   SpecObserve the rows active_geo_track appends to rssi_history         *)
(*   SpecHunt   start_hidden_device_hunt / stop, hunt_worker               *)
(*   SpecAlert  alert_target_found and its callers, the SMS cooldown       *)
(*   SpecReport the trace parser on events that report several devices     *)
(***************************************************************************)
EXTENDS Integers, Sequences, FiniteSets, TLC

\* ------------------------------------------------------------------ bounds
\* Thread objects each specification may create (a start needs a free slot).
MaxThreads == 3

Threads == 1..MaxThreads

\* Session objects (and their threads) SpecTrack may create.
MaxSessions == 2

Sessions == 1..MaxSessions

\* The counters rssi_readings and successful_pings saturate here.
MaxCount == 2
MaxPings == 1

\* Readings kept in a direction window (the code keeps 60), scaled down.
DirWindow == 2

\* Python's None for a thread or process handle.
NoThread == 0

VARIABLES
    \* ---- area scan, geo sweep, trace monitor (SpecScan)
    scanning_active,   \* global flag, app.py:75
    scan_pc,           \* position of every scan_loop thread
    geo_thread,        \* global geo_thread: the Thread object last created
    geo_pc,            \* position of every continuous_geo_loop thread
    btmon_thread,      \* global btmon_thread
    bt_pc,             \* position of every btmon_monitor_loop thread
    btmon_process,     \* global btmon_process: the Popen object, or None
    proc_alive,        \* which btmon child processes are running
    scan_reply,        \* status returned by the last start_scan / stop_scan
    \* ---- shared registry and caches
    devices,           \* global devices: BD address -> record, app.py:82
    btmon_device_cache,\* trace-monitor cache: BD address -> record
    btmon_rssi_cache,  \* legacy RSSI cache: BD address -> rssi
    rssi_history,      \* rows of the rssi_history table
    current_location,  \* operator position, None without a fix
    ctl_type,          \* what bluetoothctl info / hcitool info tell of an address
    \* ---- tracking sessions (SpecTrack)
    active_geo_sessions, \* BD address -> session object (0: no key)
    sess_active,       \* the 'active' field of every session object
    trk,               \* the active_geo_track thread of every session object
    direction_history, \* BD address -> number of readings in the window
    last_call,         \* per address: the last start/stop request and its status
    \* ---- trace parser (SpecMerge)
    state,             \* btmon_parser_state
    \* ---- estimators (SpecEst)
    observations,      \* the rssi_history rows the running request fetched
    location,          \* what the estimator returned to the request
    est_mode,          \* "none", or the estimator the request ran
    \* ---- direction finding (SpecDir)
    history,           \* direction_history[bd_address], oldest reading first
    recent,            \* the readings of the last 30 s at the last call
    direction,         \* what calculate_direction_to_target() returned
    \* ---- watchlist survey (SpecSurvey, SpecSweep)
    target_survey_active,      \* global flag, app.py:2497
    target_survey_continuous,  \* global flag, app.py:2500
    target_survey_interval,    \* seconds between sweeps, app.py:2501
    target_survey_sweep_count, \* app.py:2502
    target_survey_results,     \* BD address -> result, app.py:2499
    survey_reply,      \* what the last accepted survey start asked for
    worker,            \* the survey_worker threads, sweep by sweep
    sweep,             \* one survey_worker thread, probe by probe
    other_pc,          \* in SpecSweep: a second survey_worker thread
    report,            \* payload of the sweep's target_survey_complete event
    \* ---- registry merges and the watchlist (SpecRace, SpecWatch, SpecLocate)
    targets,           \* BD addresses of the rows of the targets table
    merge,             \* the process_found_device() calls, step by step
    is_target,         \* devices[a]['is_target'], for every a in devices
    emitter,           \* devices[a]['emitter_lat' / '_lon' / '_accuracy']
    writer,            \* the tasks that write an estimate, field by field
    \* ---- hidden device hunt (SpecHunt)
    hidden_scan_active,\* global flag, app.py:2495
    hunt,              \* the hunt_worker threads, phase by phase
    hunt_reply,        \* what the last start_hidden_device_hunt returned
    \* ---- target alerts (SpecAlert)
    now,               \* time.time(), in seconds
    target_last_sms_alert, \* BD address -> time of the last SMS, app.py:5403
    sms,               \* the SMS alerts sent, in order
    alert              \* the calls of alert_target_found in progress

scanVars == <<scanning_active, scan_pc, geo_thread, geo_pc, btmon_thread,
              bt_pc, btmon_process, proc_alive, scan_reply>>

regVars == <<devices, btmon_device_cache, btmon_rssi_cache, rssi_history,
             current_location, ctl_type>>

trackVars == <<active_geo_sessions, sess_active, trk, direction_history,
               last_call>>

estVars == <<observations, location, est_mode>>

dirVars == <<history, recent, direction>>

surveyVars == <<target_survey_active, target_survey_continuous,
                target_survey_interval, target_survey_sweep_count,
                target_survey_results, survey_reply, worker, sweep, other_pc,
                report>>

mergeVars == <<targets, merge, is_target, emitter, writer>>

huntVars == <<hidden_scan_active, hunt, hunt_reply>>

alertVars == <<now, target_last_sms_alert, sms, alert>>

vars == <<scanVars, regVars, trackVars, state, estVars, dirVars, surveyVars,
          mergeVars, huntVars, alertVars>>

\* ================================================================== SpecScan

\* threading.Thread.is_alive(): started and run() has not returned.
IsAlive(pcs, t) == t # NoThread /\ pcs[t] \notin {"none", "done"}

FreeSlot(pcs) == CHOOSE t \in Threads : pcs[t] = "none"
HasFree(pcs) == \E t \in Threads : pcs[t] = "none"

InitScan ==
    /\ scanning_active = FALSE
    /\ scan_pc = [t \in Threads |-> "none"]
    /\ geo_thread = NoThread
    /\ geo_pc = [t \in Threads |-> "none"]
    /\ btmon_thread = NoThread
    /\ bt_pc = [t \in Threads |-> "none"]
    /\ btmon_process = NoThread
    /\ proc_alive = [t \in Threads |-> FALSE]
    /\ scan_reply = "none"

\* Thread(target=...).start(): the new thread takes a free slot.
Spawn(pcs, first) == [pcs EXCEPT ![FreeSlot(pcs)] = first]

\* start_geo_thread() without the is_alive() test: a thread on every call.
StartGeoThreadAlways(gt, gpc) ==
    IF HasFree(gpc)
        THEN <<FreeSlot(gpc), Spawn(gpc, "check")>>
        ELSE <<gt, gpc>>

\* start_geo_thread(): a new thread unless the last one is still alive.
start_geo_thread(gt, gpc) ==
    IF gt = NoThread \/ ~IsAlive(gpc, gt)
        THEN <<FreeSlot(gpc), Spawn(gpc, "check")>>
        ELSE <<gt, gpc>>

\* start_btmon(): a new monitor thread unless the last one is still alive.
start_btmon(bt, bpc) ==
    IF bt # NoThread /\ IsAlive(bpc, bt)
        THEN <<bt, bpc>>
        ELSE <<FreeSlot(bpc), Spawn(bpc, "popen")>>

\* stop_btmon(): terminate the process the global names, then forget it.
stop_btmon(bp, alive) ==
    IF bp # NoThread
        THEN <<NoThread, [alive EXCEPT ![bp] = FALSE]>>
        ELSE <<bp, alive>>

\* A start that creates threads needs a free slot for each of them.
StartHasSlots ==
    /\ HasFree(scan_pc)
    /\ HasFree(geo_pc)
    /\ HasFree(bt_pc)

\* POST /api/scan/start
StartScan ==
    /\ scanning_active \/ StartHasSlots
    /\ IF ~scanning_active
        THEN /\ scanning_active' = TRUE
             /\ btmon_thread' = start_btmon(btmon_thread, bt_pc)[1]
             /\ bt_pc' = start_btmon(btmon_thread, bt_pc)[2]
             /\ geo_thread' = start_geo_thread(geo_thread, geo_pc)[1]
             /\ geo_pc' = start_geo_thread(geo_thread, geo_pc)[2]
             /\ scan_pc' = Spawn(scan_pc, "check")
             /\ scan_reply' = "started"
        ELSE /\ scan_reply' = "already running"
             /\ UNCHANGED <<scanning_active, btmon_thread, bt_pc, geo_thread,
                            geo_pc, scan_pc>>
    /\ UNCHANGED <<btmon_process, proc_alive, regVars, trackVars, state,
                   estVars, dirVars, surveyVars,
                   mergeVars,
                   huntVars, alertVars>>

\* POST /api/scan/stop
StopScan ==
    /\ scanning_active' = FALSE
    /\ btmon_process' = stop_btmon(btmon_process, proc_alive)[1]
    /\ proc_alive' = stop_btmon(btmon_process, proc_alive)[2]
    /\ scan_reply' = "stopped"
    /\ UNCHANGED <<scan_pc, geo_thread, geo_pc, btmon_thread, bt_pc, regVars,
                   trackVars, state, estVars, dirVars, surveyVars,
                   mergeVars,
                   huntVars, alertVars>>

\* scan_loop(): while scanning_active: scan, process, sleep.
ScanLoopStep(t) ==
    /\ scan_pc[t] \in {"check", "scan", "sleep", "exit"}
    /\ scan_pc' = [scan_pc EXCEPT ![t] =
          CASE scan_pc[t] = "check" -> IF scanning_active THEN "scan" ELSE "exit"
            [] scan_pc[t] = "scan"  -> "sleep"
            [] scan_pc[t] = "sleep" -> "check"
            [] scan_pc[t] = "exit"  -> "done"]
    /\ UNCHANGED <<scanning_active, geo_thread, geo_pc, btmon_thread, bt_pc,
                   btmon_process, proc_alive, scan_reply, regVars, trackVars, state,
                   estVars, dirVars, surveyVars,
                   mergeVars,
                   huntVars, alertVars>>

\* continuous_geo_loop(): while scanning_active: estimate targets, sleep 5.
GeoLoopStep(t) ==
    /\ geo_pc[t] \in {"check", "calc", "sleep", "exit"}
    /\ geo_pc' = [geo_pc EXCEPT ![t] =
          CASE geo_pc[t] = "check" -> IF scanning_active THEN "calc" ELSE "exit"
            [] geo_pc[t] = "calc"  -> "sleep"
            [] geo_pc[t] = "sleep" -> "check"
            [] geo_pc[t] = "exit"  -> "done"]
    /\ UNCHANGED <<scanning_active, scan_pc, geo_thread, btmon_thread, bt_pc,
                   btmon_process, proc_alive, scan_reply, regVars, trackVars, state,
                   estVars, dirVars, surveyVars,
                   mergeVars,
                   huntVars, alertVars>>

\* btmon_monitor_loop(): Popen, read lines while scanning and the process the
\* global names is alive, flush the pending record, and stop_btmon() in finally.
\* btmon_process.poll() on None raises: the outer except skips the flush.
BtmonStep(t) ==
    /\ bt_pc[t] \in {"popen", "loop", "flush", "final"}
    /\ CASE bt_pc[t] = "popen" ->
              /\ btmon_process' = t
              /\ proc_alive' = [proc_alive EXCEPT ![t] = TRUE]
              /\ bt_pc' = [bt_pc EXCEPT ![t] = "loop"]
         [] bt_pc[t] = "loop" ->
              /\ bt_pc' = [bt_pc EXCEPT ![t] =
                    IF ~scanning_active THEN "flush"
                    ELSE IF btmon_process = NoThread THEN "final"
                    ELSE IF ~proc_alive[btmon_process] THEN "flush"
                    ELSE "loop"]
              /\ UNCHANGED <<btmon_process, proc_alive>>
         [] bt_pc[t] = "flush" ->
              /\ bt_pc' = [bt_pc EXCEPT ![t] = "final"]
              /\ UNCHANGED <<btmon_process, proc_alive>>
         [] bt_pc[t] = "final" ->
              /\ btmon_process' = stop_btmon(btmon_process, proc_alive)[1]
              /\ proc_alive' = stop_btmon(btmon_process, proc_alive)[2]
              /\ bt_pc' = [bt_pc EXCEPT ![t] = "done"]
    /\ UNCHANGED <<scanning_active, scan_pc, geo_thread, geo_pc, btmon_thread,
                   scan_reply, regVars, trackVars, state,
                   estVars, dirVars, surveyVars,
                   mergeVars,
                   huntVars, alertVars>>

\* Threads inside the body of scan_loop's while loop (past the flag test).
ScanLoopsRunning == {t \in Threads : scan_pc[t] \in {"scan", "sleep"}}

\* Threads of continuous_geo_loop that are alive.
GeoLoopsAlive == {t \in Threads : IsAlive(geo_pc, t)}

\* C4: after any sequence of start_scan and stop_scan requests at most one
\* scan_loop task is running (stop followed by start before the previous loop
\* has observed the stop included).
C4_AtMostOneScanLoop == Cardinality(ScanLoopsRunning) <= 1

MonitorsAlive == {t \in Threads : IsAlive(bt_pc, t)}

\* C36: whenever start_scan has started scanning (a start right after a
\* stop included), the trace monitor runs while scanning remains active:
\* scanning is never active without a btmon_monitor_loop thread.  (Only
\* start_scan starts a monitor, and it starts none while scanning is
\* active, so a scanning period that has lost its monitor never gets one.)
C36_MonitorWhileScanning == scanning_active => MonitorsAlive # {}

NextScan ==
    \/ StartScan
    \/ StopScan
    \/ \E t \in Threads : ScanLoopStep(t)
    \/ \E t \in Threads : GeoLoopStep(t)
    \/ \E t \in Threads : BtmonStep(t)

\* ============================================================ data model

\* The address of the modelled device (canonical upper-case colon-hex).
Addrs == {"AA:BB:CC:DD:EE:FF"}

NoneV == "None"      \* Python's None
Absent == "absent"   \* a key the dict does not hold

Definitive == {"classic", "ble"}
TypeVals == {"unknown", "classic", "ble"}

\* Names the code treats as placeholders, and a real one.
Placeholders == {"Unknown", "BLE Device", ""}
RealNames == {"Pixel"}

\* A signal strength is None (<<>>) or one reading (<<r>>).
NoRssi == << >>
RssiVals == {-65}
OptRssi == {NoRssi} \cup {<<r>> : r \in RssiVals}

\* Python truthiness of an rssi value: None and 0 are false.
Truthy(r) == r # NoRssi /\ r[1] # 0

Positions == {"P1"}

\* methods a tracking request may name
AllMethods == {"l2ping", "rssi"}

HasKey(f, a) == a \in DOMAIN f
Put(f, a, v) == [x \in DOMAIN f \cup {a} |-> IF x = a THEN v ELSE f[x]]

EmptyMap == [x \in {} |-> NoneV]

NoData == [device_type |-> Absent, device_name |-> Absent, rssi |-> NoRssi]

\* get_btmon_device_info(): the cache entry while younger than 60 s, else None.
get_btmon_device_info(a, fresh) ==
    IF HasKey(btmon_device_cache, a) /\ fresh
        THEN btmon_device_cache[a] ELSE NoData

\* get_btmon_rssi(): the cached rssi while younger than 30 s, else None.
get_btmon_rssi(a, fresh) ==
    IF HasKey(btmon_rssi_cache, a) /\ fresh
        THEN <<btmon_rssi_cache[a]>> ELSE NoRssi

\* get_device_type(): the trace cache's definitive type, else what the
\* capability queries report (tool: their outcome, "unknown" on a timeout).
get_device_type(a, tool) ==
    IF HasKey(btmon_device_cache, a)
       /\ btmon_device_cache[a].device_type \in Definitive
        THEN btmon_device_cache[a].device_type
        ELSE tool

\* Outcomes of the capability queries for an address.
ToolTypes(a) == {ctl_type[a], "unknown"}

\* process_found_device(), lines 5480-5490: enrich from the trace cache.
Enrich(info, bd) ==
    [info EXCEPT
       !.device_type =
          IF info.device_type \in {"unknown", NoneV, Absent}
             /\ bd.device_type \notin {Absent, NoneV}
              THEN bd.device_type ELSE info.device_type,
       !.device_name =
          IF info.device_name \in ({Absent, NoneV} \cup Placeholders)
             /\ bd.device_name \notin {Absent, NoneV, ""}
              THEN bd.device_name ELSE info.device_name]

\* A key the new dict lacks reads as None in the stored record.
Stored(v) == IF v = Absent THEN NoneV ELSE v

\* devices[bd_addr].update(device_info): every key of device_info overwrites.
DictUpdate(rec, info) ==
    [device_type |-> IF info.device_type = Absent
                        THEN rec.device_type ELSE info.device_type,
     device_name |-> IF info.device_name = Absent
                        THEN rec.device_name ELSE info.device_name,
     rssi |-> info.rssi]

\* process_found_device(), lines 5528-5547: the rssi the record ends with.
\* fallback is what the cache and the active queries give when info has none.
FoundRssi(info, fallback) ==
    IF info.rssi # NoRssi THEN info.rssi ELSE fallback

\* process_found_device(): the registry after merging device_info for a.
process_found_device(devs, a, info, bd, fallback) ==
    LET e == Enrich(info, bd)
        merged == IF HasKey(devs, a)
                     THEN DictUpdate(devs[a], e)
                     ELSE [device_type |-> Stored(e.device_type),
                           device_name |-> Stored(e.device_name),
                           rssi |-> e.rssi]
        rssi == FoundRssi(e, fallback)
    IN Put(devs, a, IF Truthy(rssi) THEN [merged EXCEPT !.rssi = rssi]
                                    ELSE merged)

\* update_device_location(): a row is stored when the operator has a fix.
update_device_location(hist, a, rssi) ==
    IF current_location # NoneV
        THEN hist \cup {<<a, rssi[1], current_location>>}
        ELSE hist

\* process_found_device(), lines 5549-5552: the history after the merge.
found_history(hist, a, info, bd, fallback) ==
    LET rssi == FoundRssi(Enrich(info, bd), fallback)
    IN IF Truthy(rssi) THEN update_device_location(hist, a, rssi) ELSE hist

InitReg ==
    /\ devices = EmptyMap
    /\ btmon_device_cache = EmptyMap
    /\ btmon_rssi_cache = EmptyMap
    /\ rssi_history = {}
    /\ current_location = NoneV
    /\ ctl_type \in [Addrs -> TypeVals]

\* the GPS feed gains or loses its fix
GpsUpdate ==
    /\ current_location' \in (Positions \cup {NoneV}) \ {current_location}
    /\ UNCHANGED <<devices, btmon_device_cache, btmon_rssi_cache, rssi_history,
                   ctl_type, scanVars, trackVars, state,
                   estVars, dirVars, surveyVars,
                   mergeVars,
                   huntVars, alertVars>>

\* parse_btmon_line() on an RSSI line of an event whose address is a:
\* the legacy cache takes the reading.
TraceRssi(a, r) ==
    /\ btmon_rssi_cache' = Put(btmon_rssi_cache, a, r)
    /\ UNCHANGED <<devices, btmon_device_cache, rssi_history, current_location,
                   ctl_type, scanVars, trackVars, state,
                   estVars, dirVars, surveyVars,
                   mergeVars,
                   huntVars, alertVars>>

\* ================================================================= SpecTrack

\* session.get('active', False); the empty dict {} has no 'active'.
SessionActive(s) == s # NoThread /\ sess_active[s]

\* A thread that has not been created: the slot of a session not yet made.
NoTask == [pc |-> "none", addr |-> NoneV, methods |-> {}, rtt |-> FALSE,
           rssi |-> NoRssi, successful_pings |-> 0, rssi_readings |-> 0]

\* The thread has returned: its locals are gone.
DoneTask(t) == [NoTask EXCEPT !.pc = "done", !.addr = trk[t].addr]

\* while session.get('active', False), on the session the table holds now.
LoopTest(t) ==
    IF SessionActive(active_geo_sessions[trk[t].addr])
        THEN [trk EXCEPT ![t].pc = "probe"]
        ELSE [trk EXCEPT ![t] = DoneTask(t)]

InitTrack ==
    /\ active_geo_sessions = [a \in Addrs |-> NoThread]
    /\ sess_active = [s \in Sessions |-> FALSE]
    /\ trk = [s \in Sessions |-> NoTask]
    /\ direction_history = [a \in Addrs |-> 0]
    /\ last_call = [a \in Addrs |-> [op |-> "none", status |-> "none"]]

\* start_active_geo() without the test of line 5059.
SessionNeverRunning(a) == FALSE

\* start_active_geo(), line 5059: a session for a exists and is active.
SessionRunning(a) == SessionActive(active_geo_sessions[a])

\* start_device_geo_track(), lines 6927-6948: the methods handed on.
TrackMethods(type, req) ==
    LET m1 == IF type = "ble"
                 THEN (IF req \ {"l2ping"} = {} THEN {"rssi"}
                                               ELSE req \ {"l2ping"})
                 ELSE req
        m2 == m1 \cap AllMethods
    IN IF m2 = {} THEN AllMethods ELSE m2

HasFreeTask == \E s \in Sessions : trk[s].pc = "none"
FreeTask == CHOOSE s \in Sessions : trk[s].pc = "none"

\* POST /api/device/<a>/geo/track -> start_active_geo(a, interface, methods)
StartActiveGeo(a, req, tool) ==
    /\ tool \in ToolTypes(a)
    /\ SessionRunning(a) \/ HasFreeTask
    /\ IF SessionRunning(a)
        THEN /\ last_call' = [last_call EXCEPT
                    ![a] = [op |-> "start", status |-> "already_running"]]
             /\ UNCHANGED <<active_geo_sessions, sess_active, trk>>
        ELSE /\ active_geo_sessions' =
                    [active_geo_sessions EXCEPT ![a] = FreeTask]
             /\ sess_active' = [sess_active EXCEPT ![FreeTask] = TRUE]
             /\ trk' = [trk EXCEPT ![FreeTask] =
                    [NoTask EXCEPT !.pc = "entry", !.addr = a,
                       !.methods = TrackMethods(get_device_type(a, tool), req)]]
             /\ last_call' = [last_call EXCEPT
                    ![a] = [op |-> "start", status |-> "started"]]
    /\ UNCHANGED <<direction_history, regVars, scanVars, state,
                   estVars, dirVars, surveyVars,
                   mergeVars,
                   huntVars, alertVars>>

\* POST /api/device/<a>/geo/stop -> stop_active_geo(a)
StopActiveGeo(a) ==
    /\ IF active_geo_sessions[a] # NoThread
        THEN /\ sess_active' =
                    [sess_active EXCEPT ![active_geo_sessions[a]] = FALSE]
             /\ direction_history' = [direction_history EXCEPT ![a] = 0]
             /\ last_call' = [last_call EXCEPT
                    ![a] = [op |-> "stop", status |-> "stopped"]]
        ELSE /\ last_call' = [last_call EXCEPT
                    ![a] = [op |-> "stop", status |-> "not_running"]]
             /\ UNCHANGED <<sess_active, direction_history>>
    /\ UNCHANGED <<active_geo_sessions, trk, regVars, scanVars, state,
                   estVars, dirVars, surveyVars,
                   mergeVars,
                   huntVars, alertVars>>

Bump(n, max) == IF n < max THEN n + 1 ELSE n

\* active_geo_track(), lines 4871-4882: fetch the session, first loop test.
TrackEntry(t) ==
    /\ trk[t].pc = "entry"
    /\ trk' = LoopTest(t)
    /\ UNCHANGED <<active_geo_sessions, sess_active, direction_history,
                   last_call, regVars, scanVars, state,
                   estVars, dirVars, surveyVars,
                   mergeVars,
                   huntVars, alertVars>>

\* active_geo_track(), lines 4884-4944: one cycle's probes and fallbacks.
\* ping: l2ping answered; direct: what hcitool rssi returned; fresh: the
\* legacy cache entry is younger than 30 s; ctl: what bluetoothctl info gave.
TrackProbe(t, ping, direct, fresh, ctl) ==
    /\ trk[t].pc = "probe"
    /\ ping => "l2ping" \in trk[t].methods
    /\ direct # NoRssi => "rssi" \in trk[t].methods
    /\ LET cached == get_btmon_rssi(trk[t].addr, fresh)
           rssi == IF direct # NoRssi THEN direct
                   ELSE IF cached # NoRssi THEN cached ELSE ctl
       IN trk' = [trk EXCEPT
             ![t].rtt = ping,
             ![t].rssi = rssi,
             ![t].successful_pings = IF ping THEN Bump(@, MaxPings) ELSE @,
             ![t].rssi_readings =
                 IF direct # NoRssi THEN Bump(@, MaxCount) ELSE @,
             ![t].pc = "record"]
    /\ UNCHANGED <<active_geo_sessions, sess_active, direction_history,
                   last_call, regVars, scanVars, state,
                   estVars, dirVars, surveyVars,
                   mergeVars,
                   huntVars, alertVars>>

\* active_geo_track(), line 4944
got_response(t) == trk[t].rtt \/ trk[t].rssi # NoRssi

\* active_geo_track(), lines 4959-4968: the record a session admits.
AdmittedInfo(t, dt) ==
    [device_type |-> IF dt # "unknown" THEN dt ELSE "classic",
     device_name |-> NoneV,
     rssi |-> trk[t].rssi]

\* active_geo_track(), lines 4946-5013: the rows one cycle with a position
\* and an rssi inserts into rssi_history, in order: its own INSERT (4950-
\* 4953), the one of update_device_location() inside process_found_device()
\* when the cycle admits the device (4959-4968, 5551-5552, 4764-4767), and
\* the one of update_device_location() from the second direct reading on
\* (5008-5009).
CycleRows(t) ==
    LET row == <<trk[t].addr, trk[t].rssi[1], current_location>>
    IN <<row>>
       \o (IF ~HasKey(devices, trk[t].addr) /\ got_response(t)
              THEN <<row>> ELSE << >>)
       \o (IF trk[t].rssi_readings >= 2 THEN <<row>> ELSE << >>)

\* active_geo_track(), lines 4946-5031: record the cycle's observation.
\* tool: outcome of get_device_type's queries; fresh: trace cache entry is
\* younger than 60 s.  The cycle's rtt and rssi are dead afterwards.
TrackRecord(t, tool, fresh) ==
    LET a == trk[t].addr
        rssi == trk[t].rssi
        admit == ~HasKey(devices, a) /\ got_response(t)
        dt == get_device_type(a, tool)
        bd == get_btmon_device_info(a, fresh)
        devs1 == IF admit
                    THEN process_found_device(devices, a, AdmittedInfo(t, dt),
                                              bd, NoRssi)
                    ELSE devices
    IN
    /\ trk[t].pc = "record"
    /\ tool \in ToolTypes(a)
    /\ IF current_location # NoneV /\ Truthy(rssi)
        THEN /\ devices' = IF HasKey(devs1, a)
                              THEN [devs1 EXCEPT ![a].rssi = rssi] ELSE devs1
             /\ rssi_history' = rssi_history \cup
                    {CycleRows(t)[i] : i \in DOMAIN CycleRows(t)}
             /\ direction_history' = [direction_history EXCEPT
                    ![a] = IF @ < DirWindow THEN @ + 1 ELSE @]
             /\ trk' = [trk EXCEPT
                    ![t].rtt = FALSE, ![t].rssi = NoRssi, ![t].pc = "sleep"]
        ELSE /\ trk' = [trk EXCEPT
                    ![t].rtt = FALSE, ![t].rssi = NoRssi, ![t].pc = "sleep"]
             /\ UNCHANGED <<devices, rssi_history, direction_history>>
    /\ UNCHANGED <<active_geo_sessions, sess_active, last_call,
                   btmon_device_cache, btmon_rssi_cache, current_location,
                   ctl_type, scanVars, state, estVars, dirVars, surveyVars,
                   mergeVars,
                   huntVars, alertVars>>

\* active_geo_track(), lines 5034-5047 and 4882: sleep, fetch the session
\* the table now holds for the address, test its 'active' field.
TrackRecheck(t) ==
    /\ trk[t].pc = "sleep"
    /\ trk' = LoopTest(t)
    /\ UNCHANGED <<active_geo_sessions, sess_active, direction_history,
                   last_call, regVars, scanVars, state,
                   estVars, dirVars, surveyVars,
                   mergeVars,
                   huntVars, alertVars>>

\* Threads of active_geo_track inside the loop body for address a.
TrackLoops(a) ==
    {t \in Sessions : trk[t].addr = a /\ trk[t].pc \in {"probe", "record", "sleep"}}

\* Threads of active_geo_track created for a that have not returned.
TrackTasks(a) ==
    {t \in Sessions : trk[t].addr = a /\ trk[t].pc \notin {"none", "done"}}

\* C1: after any interleaving of start_active_geo and stop_active_geo for one
\* address at most one active_geo_track loop for that address is running.
C1_AtMostOneTrackLoop == \A a \in Addrs : Cardinality(TrackLoops(a)) <= 1

\* C2: a start that follows a start for the same address, with no stop in
\* between, returns the status the first one returned, and exactly one
\* tracking task exists afterwards.
C2_SameStatusOneTask ==
    [][\A a \in Addrs :
          (/\ last_call[a].op = "start"
           /\ \E req \in SUBSET AllMethods, tool \in TypeVals :
                 StartActiveGeo(a, req, tool))
          => /\ last_call'[a].status = last_call[a].status
             /\ Cardinality(TrackTasks(a))' = 1]_vars

\* The step in which thread t puts its address into the registry.
Admits(t) ==
    /\ trk[t].pc = "record"
    /\ trk'[t].pc = "sleep"
    /\ ~HasKey(devices, trk[t].addr)
    /\ HasKey(devices', trk[t].addr)

\* C3: a session adds its address to the registry only after one of its own
\* probe methods (l2ping, hcitool rssi) received a response from the address.
C3_AdmitOnlyAfterOwnResponse ==
    [][\A t \in Sessions :
          Admits(t) => (trk[t].successful_pings > 0 \/ trk[t].rssi_readings > 0)]_vars

\* A definitive signal for a: the trace cache holds a definitive type, or the
\* capability queries report one.
DefinitiveSignal(a) ==
    \/ ctl_type[a] \in Definitive
    \/ HasKey(btmon_device_cache, a)
       /\ btmon_device_cache[a].device_type \in Definitive

\* C8: with no definitive signal for an address its record's type is unknown;
\* no path writes classic or ble as a default.
C8_NoDefaultType ==
    \A a \in DOMAIN devices :
        ~DefinitiveSignal(a) => devices[a].device_type \notin Definitive

\* C22: once stop_active_geo has returned 'stopped' for an address, no start
\* has followed and every tracking task of the address has exited, the
\* direction window of the address is empty.
C22_WindowEmptyAfterStop ==
    \A a \in Addrs :
        (/\ last_call[a] = [op |-> "stop", status |-> "stopped"]
         /\ TrackTasks(a) = {})
            => direction_history[a] = 0

NextTrack ==
    \/ \E a \in Addrs, req \in SUBSET AllMethods, tool \in TypeVals :
          StartActiveGeo(a, req, tool)
    \/ \E a \in Addrs : StopActiveGeo(a)
    \/ \E t \in Sessions : TrackEntry(t)
    \/ \E t \in Sessions, ping \in BOOLEAN, direct \in OptRssi,
          fresh \in BOOLEAN, ctl \in OptRssi :
          TrackProbe(t, ping, direct, fresh, ctl)
    \/ \E t \in Sessions, tool \in TypeVals, fresh \in BOOLEAN :
          TrackRecord(t, tool, fresh)
    \/ \E t \in Sessions : TrackRecheck(t)
    \/ GpsUpdate
    \/ \E a \in Addrs, r \in RssiVals : TraceRssi(a, r)


\* =============================================================== SpecObserve
\* The tracking sessions alone, with every value 'hcitool rssi' can print:
\* the number after 'RSSI return value:' is matched by -?\d+ (line 4926)
\* and is 0 or positive when the link is at or above the golden range.
DirectRssis == OptRssi \cup {<<0>>, <<3>>}

\* C31: every row of rssi_history has a negative signal strength and the
\* operator's position at that moment; nothing is appended without them.
C31_RowsNegativeWithPosition ==
    \A row \in rssi_history : row[2] < 0 /\ row[3] \in Positions

\* C37: a tracking cycle that has a position and a signal strength appends
\* exactly one row to rssi_history for its address.
C37_OneRowPerCycle ==
    [][\A t \in Sessions :
          (/\ trk[t].pc = "record"
           /\ trk'[t].pc = "sleep"
           /\ current_location # NoneV
           /\ Truthy(trk[t].rssi))
             => /\ Len(CycleRows(t)) = 1
                /\ rssi_history' = rssi_history \cup {CycleRows(t)[1]}]_vars

NextObserve ==
    \/ \E a \in Addrs, tool \in TypeVals :
          StartActiveGeo(a, AllMethods, tool)
    \/ \E a \in Addrs : StopActiveGeo(a)
    \/ \E t \in Sessions : TrackEntry(t)
    \/ \E t \in Sessions, ping \in BOOLEAN, direct \in DirectRssis,
          fresh \in BOOLEAN, ctl \in OptRssi :
          TrackProbe(t, ping, direct, fresh, ctl)
    \/ \E t \in Sessions, tool \in TypeVals, fresh \in BOOLEAN :
          TrackRecord(t, tool, fresh)
    \/ \E t \in Sessions : TrackRecheck(t)
    \/ GpsUpdate



\* ================================================================= SpecMerge

\* BtmonParserState.reset()
ResetState == [current_addr |-> NoneV, current_event |-> NoneV,
               current_device |-> NoData,
               is_le_event |-> FALSE, is_classic_event |-> FALSE]

InitParser == state = ResetState

\* bool(state.current_device): the dict holds some key.  Every modelled line
\* that writes addr_type, adv_type or device_class writes device_type too.
DeviceDictNonEmpty(st) ==
    \/ st.current_device.device_type # Absent
    \/ st.current_device.device_name # Absent
    \/ st.current_device.rssi # NoRssi

\* save_btmon_device_data(), lines 2309-2314: type from the event context.
WithContextType(st) ==
    IF st.current_device.device_type # Absent THEN st.current_device
    ELSE IF st.is_le_event
        THEN [st.current_device EXCEPT !.device_type = "ble"]
    ELSE IF st.is_classic_event
        THEN [st.current_device EXCEPT !.device_type = "classic"]
    ELSE st.current_device

\* a cache whose entries are written once and never merged into
SavedCacheFirstWins(cache, a, data) ==
    IF HasKey(cache, a) THEN cache ELSE Put(cache, a, data)

\* save_btmon_device_data(), lines 2318-2325: the cache after the save.
SavedCache(cache, a, data) ==
    IF HasKey(cache, a)
        THEN [cache EXCEPT ![a] =
                [device_type |-> IF data.device_type # Absent
                                    THEN data.device_type ELSE @.device_type,
                 device_name |-> IF data.device_name # Absent
                                    THEN data.device_name ELSE @.device_name,
                 rssi |-> IF data.rssi # NoRssi THEN data.rssi ELSE @.rssi]]
        ELSE Put(cache, a, data)

\* save_btmon_device_data(), lines 2327-2352: the registry after the save.
SavedDevices(devs, a, data) ==
    IF HasKey(devs, a)
        THEN [devs EXCEPT ![a] =
                [device_type |-> IF data.device_type \in Definitive
                                    /\ @.device_type \in {"unknown", NoneV}
                                    THEN data.device_type ELSE @.device_type,
                 device_name |-> IF data.device_name \notin {Absent, NoneV, ""}
                                    /\ @.device_name \in ({NoneV} \cup Placeholders)
                                    THEN data.device_name ELSE @.device_name,
                 rssi |-> IF data.rssi # NoRssi THEN data.rssi ELSE @.rssi]]
        ELSE devs

\* a parser that drops the accumulated fields instead of saving them
SaveNothing == UNCHANGED <<btmon_device_cache, devices>>

\* if state.current_addr and state.current_device: save_btmon_device_data(...)
SavePending ==
    IF state.current_addr # NoneV /\ DeviceDictNonEmpty(state)
        THEN /\ btmon_device_cache' =
                   SavedCache(btmon_device_cache, state.current_addr,
                              WithContextType(state))
             /\ devices' = SavedDevices(devices, state.current_addr,
                                        WithContextType(state))
        ELSE UNCHANGED <<btmon_device_cache, devices>>

HeaderKinds == {"le_meta", "inquiry_result", "name_complete", "device_found"}

\* parse_btmon_line(), lines 2081-2110: an event header line.
HeaderLine(kind) ==
    /\ SavePending
    /\ state' = [ResetState EXCEPT
          !.current_event = kind,
          !.is_le_event = (kind = "le_meta"),
          !.is_classic_event = (kind \in {"inquiry_result", "name_complete"})]
    /\ UNCHANGED <<btmon_rssi_cache, rssi_history, current_location, ctl_type,
                   scanVars, trackVars, estVars, dirVars, surveyVars,
                   mergeVars,
                   huntVars, alertVars>>

AddressForms == {"le", "bredr", "le_type", "oui", "plain"}

\* parse_btmon_line(), lines 2143-2152: "Address: X (OUI ..)".
OuiAddress(st, a) ==
    IF ~st.is_le_event
        THEN [st EXCEPT !.current_addr = a,
                        !.current_device.device_type = "classic",
                        !.is_classic_event = TRUE]
        ELSE [st EXCEPT !.current_addr = a]

\* parse_btmon_line(), lines 2112-2169: an address line of one of the forms
\* "LE Address: X (type)", "BR/EDR Address: X", "Address: X (Resolvable..)",
\* "Address: X (OUI ..)", "Address: X".
AddressLine(a, form) ==
    /\ state' =
         CASE form \in {"le", "le_type"} ->
                [state EXCEPT !.current_addr = a,
                              !.current_device.device_type = "ble",
                              !.is_le_event = TRUE]
           [] form = "bredr" ->
                [state EXCEPT !.current_addr = a,
                              !.current_device.device_type = "classic",
                              !.is_classic_event = TRUE]
           [] form = "oui" -> OuiAddress(state, a)
           [] form = "plain" ->
                IF state.current_addr = NoneV
                    THEN [state EXCEPT !.current_addr = a] ELSE state
    /\ UNCHANGED <<regVars, scanVars, trackVars, estVars, dirVars, surveyVars,
                   mergeVars,
                   huntVars, alertVars>>

IndicatorKinds == {"addr_type_random", "legacy_pdu", "class", "le_flags"}

\* parse_btmon_line(), lines 2154-2163 and 2254-2296: "Address type: Random",
\* "Legacy PDU Type: ..", "Class: 0x..", and the LE flag / event type lines.
IndicatorLine(kind) ==
    /\ state' =
         IF kind = "class"
             THEN [state EXCEPT !.current_device.device_type = "classic",
                                !.is_classic_event = TRUE]
             ELSE [state EXCEPT !.current_device.device_type = "ble",
                                !.is_le_event = TRUE]
    /\ UNCHANGED <<regVars, scanVars, trackVars, estVars, dirVars, surveyVars,
                   mergeVars,
                   huntVars, alertVars>>

\* parse_btmon_line(), lines 2171-2188: "RSSI: r dBm".
RssiLine(r) ==
    /\ state' = [state EXCEPT !.current_device.rssi = <<r>>]
    /\ btmon_rssi_cache' =
         IF state.current_addr # NoneV
             THEN Put(btmon_rssi_cache, state.current_addr, r)
             ELSE btmon_rssi_cache
    /\ UNCHANGED <<devices, btmon_device_cache, rssi_history, current_location,
                   ctl_type, scanVars, trackVars,
                   estVars, dirVars, surveyVars,
                   mergeVars,
                   huntVars, alertVars>>

\* parse_btmon_line(), lines 2190-2214: "Name: n" of a Remote Name Req
\* Complete event (in_name_event), "Name (complete): n" or "... Local Name: n".
NameLine(n, in_name_event) ==
    /\ in_name_event => state.current_event = "name_complete"
    /\ state' = IF n \notin {"", "(null)"}
                   THEN [state EXCEPT !.current_device.device_name = n]
                   ELSE state
    /\ UNCHANGED <<regVars, scanVars, trackVars, estVars, dirVars, surveyVars,
                   mergeVars,
                   huntVars, alertVars>>

\* btmon_monitor_loop(), lines 2399-2402: the stream ended.
TraceEnd ==
    /\ SavePending
    /\ state' = ResetState
    /\ UNCHANGED <<btmon_rssi_cache, rssi_history, current_location, ctl_type,
                   scanVars, trackVars, estVars, dirVars, surveyVars,
                   mergeVars,
                   huntVars, alertVars>>

\* process_found_device(), lines 5528-5547: what the fallback chain can give.
\* The legacy cache entry is younger than 30 s or not; after it come
\* bluetoothctl and the active queries, which answer or do not.
FallbackRssis(a) ==
    {IF get_btmon_rssi(a, fresh_rssi) # NoRssi
        THEN get_btmon_rssi(a, fresh_rssi) ELSE ext :
     fresh_rssi \in BOOLEAN, ext \in OptRssi}

\* process_found_device(device_info) called by a source.  fresh: the trace
\* cache entry is younger than 60 s.
Found(a, info, fresh, fallback) ==
    LET bd == get_btmon_device_info(a, fresh)
    IN /\ fallback \in FallbackRssis(a)
       /\ devices' = process_found_device(devices, a, info, bd, fallback)
       /\ rssi_history' = found_history(rssi_history, a, info, bd, fallback)
       /\ UNCHANGED <<btmon_device_cache, btmon_rssi_cache, current_location,
                      ctl_type, scanVars, trackVars, state,
                   estVars, dirVars, surveyVars,
                   mergeVars,
                   huntVars, alertVars>>

\* scan_loop() -> scan_classic_bluetooth(): one device of a scan pass.
\* A [NEW] line gives the name or 'Unknown'; the type is get_device_type().
ScanFound(a, name, rssi, tool, fresh, fallback) ==
    /\ tool \in ToolTypes(a)
    /\ Found(a, [device_type |-> get_device_type(a, tool),
                 device_name |-> name, rssi |-> rssi],
             fresh, fallback)

\* target_survey(), lines 3723-3753 and 3970-3980: a watchlisted address
\* answered in the BLE phase (type 'ble') or the paging phase ('classic').
SurveyFound(a, phase, name, rssi, fresh, fallback) ==
    Found(a, [device_type |-> phase, device_name |-> name, rssi |-> rssi],
          fresh, fallback)

\* continuous_name_retrieval(), lines 4351-4367: hcitool name answered n.
NameRetrieved(a, n, fresh, fallback) ==
    IF HasKey(devices, a)
        THEN /\ devices' = [devices EXCEPT ![a].device_name = n]
             /\ UNCHANGED <<btmon_device_cache, btmon_rssi_cache, rssi_history,
                            current_location, ctl_type, scanVars, trackVars,
                            state, estVars, dirVars, surveyVars,
                            mergeVars,
                   huntVars, alertVars>>
        ELSE Found(a, [device_type |-> "classic", device_name |-> n,
                       rssi |-> NoRssi], fresh, fallback)

ScanNames == {"Unknown"} \cup RealNames
SurveyNames == {NoneV} \cup RealNames

\* The trace monitor alone: every line kind of the parser.
NextTrace ==
    \/ \E kind \in HeaderKinds : HeaderLine(kind)
    \/ \E a \in Addrs, form \in AddressForms : AddressLine(a, form)
    \/ \E kind \in IndicatorKinds : IndicatorLine(kind)
    \/ \E r \in RssiVals : RssiLine(r)
    \/ \E n \in RealNames, e \in BOOLEAN : NameLine(n, e)
    \/ TraceEnd

\* The sources that write type and name into one record: the trace monitor
\* (its type and name lines), the area scan, the survey, the name retrieval.
NextMerge ==
    \/ \E kind \in HeaderKinds : HeaderLine(kind)
    \/ \E a \in Addrs, form \in AddressForms : AddressLine(a, form)
    \/ \E kind \in IndicatorKinds : IndicatorLine(kind)
    \/ \E n \in RealNames, e \in BOOLEAN : NameLine(n, e)
    \/ TraceEnd
    \/ \E a \in Addrs, name \in ScanNames, rssi \in OptRssi, tool \in TypeVals,
          fresh \in BOOLEAN, fallback \in OptRssi :
          ScanFound(a, name, rssi, tool, fresh, fallback)
    \/ \E a \in Addrs, phase \in Definitive, name \in SurveyNames,
          rssi \in OptRssi, fresh \in BOOLEAN, fallback \in OptRssi :
          SurveyFound(a, phase, name, rssi, fresh, fallback)
    \/ \E a \in Addrs, n \in RealNames, fresh \in BOOLEAN,
          fallback \in OptRssi :
          NameRetrieved(a, n, fresh, fallback)

\* C6: across merges into one record, a type that is classic or ble never
\* becomes unknown (or None) again; an observation of type unknown leaves the
\* stored type as it was.
C6_TypeNeverReverts ==
    [][\A a \in DOMAIN devices :
          (devices[a].device_type \in Definitive /\ HasKey(devices', a))
              => devices'[a].device_type \in Definitive]_vars

\* C7: a definitive type stored in the registry or in the trace cache is not
\* replaced by the other definitive type.  Neither store has a conflict marker
\* (no write of one exists in process_found_device or
\* save_btmon_device_data), so every such replacement is a silent one.
C7_DefinitiveNotReplaced ==
    [][/\ \A a \in DOMAIN devices :
             (/\ devices[a].device_type \in Definitive
              /\ HasKey(devices', a)
              /\ devices'[a].device_type \in Definitive)
                 => devices'[a].device_type = devices[a].device_type
       /\ \A a \in DOMAIN btmon_device_cache :
             (/\ btmon_device_cache[a].device_type \in Definitive
              /\ HasKey(btmon_device_cache', a)
              /\ btmon_device_cache'[a].device_type \in Definitive)
                 => btmon_device_cache'[a].device_type
                       = btmon_device_cache[a].device_type]_vars

\* C9: an "Address: X (OUI ..)" line parsed in an event that has shown no LE
\* and no BR/EDR indicator leaves the type of the current device unset.
C9_OuiAddressSetsNoType ==
    [][(/\ ~state.is_le_event
        /\ ~state.is_classic_event
        /\ state.current_device.device_type = Absent
        /\ \E a \in Addrs : AddressLine(a, "oui"))
          => state'.current_device.device_type = Absent]_vars

\* C10: across merges into one record, a name that is neither None, '' nor
\* 'Unknown' is never replaced by one of these.
C10_NameNeverDegrades ==
    [][\A a \in DOMAIN devices :
          (devices[a].device_name \notin {NoneV, "", "Unknown"}
           /\ HasKey(devices', a))
              => devices'[a].device_name \notin {NoneV, "", "Unknown"}]_vars


\* The parser holds a record to save: an address and one field or more.
Pending == state.current_addr # NoneV /\ DeviceDictNonEmpty(state)

\* The fields of the pending record are in the trace cache after the step.
PendingSaved ==
    /\ HasKey(btmon_device_cache', state.current_addr)
    /\ \A data \in {WithContextType(state)},
          rec \in {btmon_device_cache'[state.current_addr]} :
          /\ data.device_type # Absent => rec.device_type = data.device_type
          /\ data.device_name # Absent => rec.device_name = data.device_name
          /\ data.rssi # NoRssi => rec.rssi = data.rssi

MaxObs == 21
\* Rows of the first of the two groups of a fetched list.
MaxFirst == 2

RSSI_UNCERTAINTY == 8
TX_POWER == -59
\* millimetres in a metre
Metre == 1000

\* an estimator's None; a result r is <<r>>
NoLocation == << >>

\* the value of a local computed once: the element of a one-element set
Only(S) == CHOOSE x \in S : TRUE

Max(a, b) == IF a >= b THEN a ELSE b
Min(a, b) == IF a <= b THEN a ELSE b

\* the k of lo..hi-1 with k * k <= x < (k + 1) * (k + 1), by bisection
RECURSIVE SqrtBetween(_, _, _)
SqrtBetween(x, lo, hi) ==
    IF hi - lo <= 1 THEN lo
    ELSE LET mid == (lo + hi) \div 2
         IN IF mid * mid <= x THEN SqrtBetween(x, mid, hi)
                              ELSE SqrtBetween(x, lo, mid)
\* math.sqrt, rounded down (arguments stay below 2^20)
ISqrt(x) == SqrtBetween(x, 0, 1024)

\* sum(f(o) for o in the first i rows of obs if keep(o))
RECURSIVE SumOver(_, _, _, _)
SumOver(obs, keep(_), f(_), i) ==
    IF i = 0 THEN 0
    ELSE (IF keep(obs[i]) THEN f(obs[i]) ELSE 0) + SumOver(obs, keep, f, i - 1)

\* 10 ** (k / 25) metres for k = 1..n, in hundredths of a millimetre: each
\* entry is the one before times 10 ** 0.04 = 1.0965
RECURSIVE PowersTo(_)
PowersTo(n) ==
    IF n = 0 THEN << >>
    ELSE LET s == PowersTo(n - 1)
             last == IF n = 1 THEN 100 * Metre ELSE s[n - 1]
         IN Append(s, (last \div 10000) * 10965
                         + ((last % 10000) * 10965) \div 10000)

Powers == PowersTo(24)

\* 10 ** e
RECURSIVE Ten(_)
Ten(e) == IF e = 0 THEN 1 ELSE 10 * Ten(e - 1)

Pow10Up(k) ==
    (Ten(k \div 25) * (IF k % 25 = 0 THEN 100 * Metre ELSE Powers[k % 25]))
        \div 100

\* 10 ** (k / 25) metres, in millimetres:
\* 10 ** (k div 25) * 10 ** ((k mod 25) / 25) for k > 0, the inverse for k < 0
Pow10(k) ==
    IF k < 0 THEN (Metre * Metre) \div Pow10Up(-k)
    ELSE Pow10Up(k)

\* calculate_distance_from_rssi(): <<distance, dist_min, dist_max>>;
\* n = 2.5, so the exponent is (tx_power - rssi) / 25.
calculate_distance_from_rssi(rssi, tx_power) ==
    IF rssi >= 0 THEN <<100, 100, 1000>>
    ELSE <<Min(Pow10(tx_power - rssi), 1000 * Metre),
           Min(Pow10(tx_power - (rssi + RSSI_UNCERTAINTY)), 1000 * Metre),
           Min(Pow10(tx_power - (rssi - RSSI_UNCERTAINTY)), 1000 * Metre)>>

\* haversine_distance(), in metres, of two points of the local grid
haversine_distance(lat1, lon1, lat2, lon2) ==
    ISqrt((lat2 - lat1) * (lat2 - lat1) + (lon2 - lon1) * (lon2 - lon1))

\* calculate_spatial_diversity() of a list of rows: the largest distance
\* between two of them
calculate_spatial_diversity(obs) ==
    LET pts == {<<obs[i].lat, obs[i].lon>> : i \in 1..Len(obs)}
        spreads == {haversine_distance(p[1], p[2], q[1], q[2]) :
                       p \in pts, q \in pts}
    IN IF spreads = {} THEN 0
       ELSE CHOOSE m \in spreads : \A d \in spreads : d <= m

\* estimate_emitter_location(), line 4662: lat and lon and rssi and rssi < 0
PassiveUsable(o) == o.lat # 0 /\ o.lon # 0 /\ o.rssi # 0 /\ o.rssi < 0

\* calculate_geolocation(), line 7549, without the test of the sign of rssi
ActiveUsableAnyRssi(o) == ~(o.lat = 0 \/ o.lon = 0)

\* calculate_geolocation(), line 7549: not (rssi >= 0 or not lat or not lon)
ActiveUsable(o) == ~(o.rssi >= 0 \/ o.lat = 0 \/ o.lon = 0)

\* calculate_geolocation(), line 7575: o[0] and o[1]
HasCoords(o) == o.lat # 0 /\ o.lon # 0

\* 1 / (dist * dist + 1), dist in metres, scaled by 2 * 10^5
InverseSquare(dist) ==
    LET cm == dist \div 10 IN 2000000000 \div (cm * cm + 10000)

\* estimate_emitter_location(), lines 4722-4731
PassiveDiversityFactor(spatial_diversity) ==
    IF spatial_diversity < 10 THEN 300
    ELSE IF spatial_diversity < 30 THEN 200
    ELSE IF spatial_diversity < 50 THEN 150
    ELSE IF spatial_diversity < 100 THEN 120
    ELSE 100

\* estimate_emitter_location(), lines 4734-4735
PassiveObsFactor(n) == Max(70, Min(ISqrt(100000 \div Max(n, 1)), 150))

\* round(x, 1): millimetres to decimetres
Round1(mm) == (mm + 50) \div 100

\* estimate_emitter_location(), line 4745, with no minimum
PassiveNoFloor(cep_radius) == cep_radius

\* estimate_emitter_location(), line 4745: max(30, cep_radius)
PassiveFloor(cep_radius) == Max(30 * Metre, cep_radius)

\* calculate_distance_from_rssi(rssi, -59) for every rssi of a byte
DistanceOf ==
    [rssi \in -128..127 |-> calculate_distance_from_rssi(rssi, TX_POWER)]

\* dist, dist_min, dist_max of a row
Dist(o) == DistanceOf[o.rssi][1]
DistMin(o) == DistanceOf[o.rssi][2]
DistMax(o) == DistanceOf[o.rssi][3]

\* estimate_emitter_location(), line 4688: weight of a row
PassiveWeight(o) == InverseSquare(Dist(o))

\* estimate_emitter_location(), lines 4676-4718: what the loop over the
\* usable rows accumulates
PassiveSums(readings) ==
    LET len == Len(readings)
        n == SumOver(readings, PassiveUsable, LAMBDA o : 1, len)
    IN [n |-> n,
        total_weight |-> SumOver(readings, PassiveUsable, PassiveWeight, len),
        weighted_lat |-> SumOver(readings, PassiveUsable,
                                 LAMBDA o : o.lat * PassiveWeight(o), len),
        weighted_lon |-> SumOver(readings, PassiveUsable,
                                 LAMBDA o : o.lon * PassiveWeight(o), len),
        distance |-> SumOver(readings, PassiveUsable, Dist, len),
        uncertainty |-> SumOver(readings, PassiveUsable,
                                LAMBDA o : DistMax(o) - DistMin(o), len)]

\* estimate_emitter_location(), lines 4716-4750: the radius, in millimetres,
\* from the sums and the spatial diversity
PassiveCep(sums, spatial_diversity) ==
    LET avg_distance == sums.distance \div sums.n
        avg_uncertainty == sums.uncertainty \div sums.n
        base_cep == (avg_uncertainty * 15) \div 10
        cep0 == (((base_cep * PassiveDiversityFactor(spatial_diversity))
                    \div 100) * PassiveObsFactor(sums.n)) \div 100
        distance_floor == (avg_distance * 3) \div 10
        cep1 == PassiveFloor(Max(cep0, distance_floor))
    IN Min(200 * Metre, cep1)

\* estimate_emitter_location() on the rows its query returned
estimate_emitter_location(readings) ==
    IF Len(readings) < 3 THEN NoLocation
    ELSE Only({IF sums.n < 3 \/ sums.total_weight = 0 THEN NoLocation
               ELSE <<[lat |-> sums.weighted_lat \div sums.total_weight,
                       lon |-> sums.weighted_lon \div sums.total_weight,
                       cep |-> Round1(PassiveCep(sums,
                                  calculate_spatial_diversity(SelectSeq(readings, PassiveUsable))))]>> :
               sums \in {PassiveSums(readings)}})

\* rssi_values of lines 7544-7552, as its length, sum, sum of squares and
\* maximum
RssiValues(obs) ==
    [n |-> SumOver(obs, ActiveUsable, LAMBDA o : 1, Len(obs)),
     su |-> SumOver(obs, ActiveUsable, LAMBDA o : o.rssi, Len(obs)),
     sq |-> SumOver(obs, ActiveUsable, LAMBDA o : o.rssi * o.rssi, Len(obs)),
     max |-> LET rs == {obs[i].rssi : i \in {j \in 1..Len(obs) : ActiveUsable(obs[j])}}
             IN IF rs = {} THEN 0 ELSE CHOOSE m \in rs : \A r \in rs : r <= m]

\* rssi_std < t, for the standard deviation of lines 7589-7591:
\* variance = (n * sum(r^2) - sum(r)^2) / n^2
StdBelow(rssi_values, t) ==
    rssi_values.n * rssi_values.sq - rssi_values.su * rssi_values.su
        < t * t * rssi_values.n * rssi_values.n

\* calculate_geolocation(), lines 7597-7604
ConsistencyFactor(rssi_values) ==
    IF StdBelow(rssi_values, 3) THEN 70
    ELSE IF StdBelow(rssi_values, 6) THEN 85
    ELSE IF StdBelow(rssi_values, 10) THEN 100
    ELSE 130

\* calculate_geolocation(), lines 7607-7616, with the factors in reverse order
ActiveDiversityFactorReversed(spatial_diversity) ==
    IF spatial_diversity < 10 THEN 80
    ELSE IF spatial_diversity < 30 THEN 100
    ELSE IF spatial_diversity < 50 THEN 130
    ELSE IF spatial_diversity < 100 THEN 180
    ELSE 250

\* calculate_geolocation(), lines 7607-7616
ActiveDiversityFactor(spatial_diversity) ==
    IF spatial_diversity < 10 THEN 250
    ELSE IF spatial_diversity < 30 THEN 180
    ELSE IF spatial_diversity < 50 THEN 130
    ELSE IF spatial_diversity < 100 THEN 100
    ELSE 80

\* calculate_geolocation(), lines 7619-7626
ActiveObsFactor(n) ==
    IF n >= 20 THEN 70
    ELSE IF n >= 15 THEN 80
    ELSE IF n >= 10 THEN 90
    ELSE 100 + (10 - n) * 10

\* calculate_geolocation(), lines 7629-7639
SignalFactor(strongest_rssi) ==
    IF strongest_rssi > -50 THEN 60
    ELSE IF strongest_rssi > -60 THEN 80
    ELSE IF strongest_rssi > -70 THEN 100
    ELSE IF strongest_rssi > -80 THEN 130
    ELSE 160

\* calculate_geolocation(), lines 7650-7657: min_cep
MinCep(spatial_diversity, n, strongest_rssi, rssi_values) ==
    IF spatial_diversity > 100 /\ n > 15 /\ strongest_rssi > -60
       /\ StdBelow(rssi_values, 5)
        THEN 10 * Metre
    ELSE IF spatial_diversity > 50 /\ n > 10 /\ strongest_rssi > -70
        THEN 15 * Metre
    ELSE IF spatial_diversity > 30 /\ n > 5
        THEN 20 * Metre
    ELSE 25 * Metre

\* calculate_geolocation(), line 7659: max(min_cep, cep)
ActiveFloor(min_cep, cep) == Max(min_cep, cep)

\* calculate_geolocation(), lines 7665-7674, with a bonus for few rows
ConfidenceFewRows(n, spatial_diversity, rssi_values, strongest_rssi) ==
    Min(95, 50 + (IF n < 10 THEN 15 ELSE 0)
               + (IF spatial_diversity > 50 THEN 15 ELSE 0)
               + (IF StdBelow(rssi_values, 6) THEN 10 ELSE 0)
               + (IF strongest_rssi > -65 THEN 5 ELSE 0))

\* calculate_geolocation(), lines 7665-7674: confidence
Confidence(n, spatial_diversity, rssi_values, strongest_rssi) ==
    Min(95, 50 + (IF n >= 10 THEN 15 ELSE 0)
               + (IF spatial_diversity > 50 THEN 15 ELSE 0)
               + (IF StdBelow(rssi_values, 6) THEN 10 ELSE 0)
               + (IF strongest_rssi > -65 THEN 5 ELSE 0))

\* max(0.1, (rssi + 100) / 50), in per cent
SignalQuality(rssi) == Max(10, (rssi + 100) * 2)

\* signal_quality / (dist * dist + 1), dist in metres, scaled by 10^5
ActiveWeight(rssi, dist) ==
    LET cm == dist \div 10
    IN (SignalQuality(rssi) * 10000000) \div (cm * cm + 10000)

\* calculate_geolocation(), line 7560: weight of a row
RowWeight(o) == ActiveWeight(o.rssi, Dist(o))

\* calculate_geolocation(), lines 7538-7591: what the loop over the usable
\* rows accumulates
ActiveSums(obs) ==
    LET len == Len(obs)
    IN [len |-> len,
        rssi_values |-> RssiValues(obs),
        total_weight |-> SumOver(obs, ActiveUsable, RowWeight, len),
        weighted_lat |-> SumOver(obs, ActiveUsable,
                                 LAMBDA o : o.lat * RowWeight(o), len),
        weighted_lon |-> SumOver(obs, ActiveUsable,
                                 LAMBDA o : o.lon * RowWeight(o), len),
        distance |-> SumOver(obs, ActiveUsable, Dist, len),
        uncertainty |-> SumOver(obs, ActiveUsable,
                                LAMBDA o : DistMax(o) - DistMin(o), len)]

\* calculate_geolocation(), lines 7585-7662: the radius, in millimetres,
\* from the sums and the spatial diversity
ActiveCep(sums, spatial_diversity) ==
    LET n == sums.rssi_values.n
        avg_distance == sums.distance \div n
        avg_uncertainty == sums.uncertainty \div n
        base_cep == (avg_uncertainty * 8) \div 10
        strongest_rssi == sums.rssi_values.max
        cep0 == (((((((base_cep * ConsistencyFactor(sums.rssi_values))
                    \div 100)
                    * ActiveDiversityFactor(spatial_diversity)) \div 100)
                    * ActiveObsFactor(sums.len)) \div 100)
                    * SignalFactor(strongest_rssi)) \div 100
        distance_floor == (avg_distance * 15) \div 100
        min_cep == MinCep(spatial_diversity, sums.len, strongest_rssi,
                          sums.rssi_values)
        cep1 == ActiveFloor(min_cep, Max(cep0, distance_floor))
    IN Min(150 * Metre, cep1)

\* calculate_geolocation(observations)
calculate_geolocation(obs) ==
    IF Len(obs) < 3 THEN NoLocation
    ELSE Only({IF sums.total_weight = 0 \/ sums.rssi_values.n < 3
                   THEN NoLocation
               ELSE <<[lat |-> sums.weighted_lat \div sums.total_weight,
                       lon |-> sums.weighted_lon \div sums.total_weight,
                       cep |-> Round1(ActiveCep(sums, spatial_diversity)),
                       confidence |-> Confidence(sums.len, spatial_diversity,
                                                 sums.rssi_values,
                                                 sums.rssi_values.max),
                       observations |-> sums.len,
                       spatial_diversity |-> spatial_diversity,
                       strongest_rssi |-> sums.rssi_values.max]>> :
               sums \in {ActiveSums(obs)},
               spatial_diversity \in {calculate_spatial_diversity(SelectSeq(obs, HasCoords))}})

\* ---- what a request can fetch
\* A fetched list is a group of rows taken at one point with one rssi,
\* followed by a group taken at a second point with a second rssi.
FirstPoints == {<<0, 1>>, <<1, 0>>, <<1, 1>>}
FirstRssi == {0, -45, -68}
SecondLats == {0, 1, 6, 21, 31, 41, 51, 71, 101, 131}
RssiLevels == {0, -45, -55, -62, -68, -75, -85}

Rows(n, k, p1, r1, lat2, r2) ==
    [i \in 1..n |-> IF i <= k
                       THEN [lat |-> p1[1], lon |-> p1[2], rssi |-> r1]
                       ELSE [lat |-> lat2, lon |-> 1, rssi |-> r2]]

InitEst ==
    /\ observations = << >>
    /\ location = NoLocation
    /\ est_mode = "none"

\* The lists a SELECT on rssi_history can return to a request.
FetchedRows(n, k, p1, r1, lat2, r2) ==
    IF k <= n THEN {Rows(n, k, p1, r1, lat2, r2)} ELSE {}

\* device_locate() and continuous_geo_loop(): the last rows of the address
\* are fetched and, when there are two or more, handed to the estimator.
DeviceLocate ==
    /\ est_mode = "none"
    /\ \E n \in 0..MaxObs, k \in 0..MaxFirst, p1 \in FirstPoints,
          r1 \in FirstRssi, lat2 \in SecondLats, r2 \in RssiLevels :
          \E obs \in FetchedRows(n, k, p1, r1, lat2, r2) :
             /\ observations' = obs
             /\ location' = IF Len(obs) < 2 THEN NoLocation
                            ELSE calculate_geolocation(obs)
    /\ est_mode' = "active"
    /\ UNCHANGED <<scanVars, regVars, trackVars, state, dirVars, surveyVars,
                   mergeVars,
                   huntVars, alertVars>>

\* update_device_location(), line 4773: estimate_emitter_location() fetches
\* the rows of the last ten minutes and estimates from them.
EstimateEmitterLocation ==
    /\ est_mode = "none"
    /\ \E n \in 0..MaxObs, k \in 0..MaxFirst, p1 \in FirstPoints,
          r1 \in FirstRssi, lat2 \in SecondLats, r2 \in RssiLevels :
          \E readings \in FetchedRows(n, k, p1, r1, lat2, r2) :
             /\ observations' = readings
             /\ location' = estimate_emitter_location(readings)
    /\ est_mode' = "passive"
    /\ UNCHANGED <<scanVars, regVars, trackVars, state, dirVars, surveyVars,
                   mergeVars,
                   huntVars, alertVars>>

\* the request has returned; its locals are gone
EstimateReturned ==
    /\ est_mode # "none"
    /\ observations' = << >>
    /\ location' = NoLocation
    /\ est_mode' = "none"
    /\ UNCHANGED <<scanVars, regVars, trackVars, state, dirVars, surveyVars,
                   mergeVars,
                   huntVars, alertVars>>

\* ---- claims on the estimators

\* rows with a valid operator position and a negative signal strength
UsableRows(obs) ==
    {i \in 1..Len(obs) : obs[i].lat # 0 /\ obs[i].lon # 0 /\ obs[i].rssi < 0}

\* spatial diversities the fetched lists can have
Diversities == {haversine_distance(1, 1, lat, 1) : lat \in SecondLats \ {0}}

\* C11: an estimator that was given fewer than 3 usable rows (valid
\* position, negative rssi) returns no result, in both modes.
C11_FewUsableNoResult ==
    (est_mode # "none" /\ Cardinality(UsableRows(observations)) < 3)
        => location = NoLocation

\* an estimator was given 3 rows or more, fewer than 3 of them usable
C11_Witness ==
    /\ est_mode = "active"
    /\ Len(observations) >= 3
    /\ Cardinality(UsableRows(observations)) = 2
    /\ location = NoLocation

\* C13: with the rows' number and signal strengths as they are, the radius
\* the estimator returns does not grow when the spatial diversity grows, in
\* both modes; the returned radius is the one of the rows' own diversity.
C13_RadiusFallsWithDiversity ==
    /\ (est_mode = "active" /\ location # NoLocation) =>
          \A sums \in {ActiveSums(observations)} :
             /\ location[1].cep
                   = Round1(ActiveCep(sums, location[1].spatial_diversity))
             /\ \A cep \in {[d \in Diversities |-> ActiveCep(sums, d)]} :
                   \A d1 \in Diversities, d2 \in Diversities :
                      d1 <= d2 => cep[d2] <= cep[d1]
    /\ (est_mode = "passive" /\ location # NoLocation) =>
          \A sums \in {PassiveSums(observations)} :
             /\ location[1].cep
                   = Round1(PassiveCep(sums,
                        calculate_spatial_diversity(SelectSeq(observations, PassiveUsable))))
             /\ \A cep \in {[d \in Diversities |-> PassiveCep(sums, d)]} :
                   \A d1 \in Diversities, d2 \in Diversities :
                      d1 <= d2 => cep[d2] <= cep[d1]

\* an active estimate over a wide spread whose radius is smaller than the one
\* the same rows would get with no spread
C13_Witness ==
    /\ est_mode = "active"
    /\ location # NoLocation
    /\ location[1].spatial_diversity > 100
    /\ location[1].cep < Round1(ActiveCep(ActiveSums(observations), 0))

\* C14: a passive estimate has a radius of 30 m or more; an active estimate
\* has a radius of at least its floor, which lies between 10 m and 25 m and
\* so below the passive one.  Radii are in decimetres (round(cep, 1)).
C14_RadiusFloors ==
    /\ (est_mode = "passive" /\ location # NoLocation) =>
          location[1].cep >= 300
    /\ (est_mode = "active" /\ location # NoLocation) =>
          \A rv \in {RssiValues(observations)} :
             \A min_cep \in {MinCep(location[1].spatial_diversity,
                                    Len(observations), rv.max, rv)} :
                /\ location[1].cep >= Round1(min_cep)
                /\ min_cep >= 10 * Metre
                /\ min_cep <= 25 * Metre
                /\ min_cep < 30 * Metre

\* a passive estimate that sits on its floor
C14_Witness ==
    /\ est_mode = "passive"
    /\ location # NoLocation
    /\ location[1].cep = 300

Counts == {3, 9, 10, 11, MaxObs, MaxObs + 1}

\* C15: the confidence of an estimate is at most 95, and with the readings'
\* consistency as it is, more rows, more spatial diversity or a stronger
\* strongest signal never give a lower confidence.
C15_ConfidenceCappedMonotone ==
    (est_mode = "active" /\ location # NoLocation) =>
        /\ location[1].confidence <= 95
        /\ \A rv \in {RssiValues(observations)} :
              \A n2 \in Counts, d2 \in Diversities, s2 \in RssiLevels \ {0} :
                 (/\ n2 >= location[1].observations
                  /\ d2 >= location[1].spatial_diversity
                  /\ s2 >= location[1].strongest_rssi)
                    => Confidence(n2, d2, rv, s2) >= location[1].confidence

\* an estimate with every bonus: confidence 95
C15_Witness ==
    /\ est_mode = "active"
    /\ location # NoLocation
    /\ location[1].confidence = 95

NextEst ==
    \/ DeviceLocate
    \/ EstimateEmitterLocation
    \/ EstimateReturned

\* =================================================================== SpecDir
\* Direction finding for one tracked address.  The operator walks along a
\* meridian: positions are metres north of a reference point, so that
\* distances and bearings are exact.

\* Readings add_direction_reading() keeps (the code keeps 60), scaled down.
MaxReadings == 5

\* calculate_bearing() of two points of one meridian: north, or south
calculate_bearing(lat1, lon1, lat2, lon2) == IF lat2 < lat1 THEN 180 ELSE 0

\* calculate_direction_to_target(), line 4533, with the test left out
MovementUnchecked(movement) == FALSE

\* calculate_direction_to_target(), line 4533: movement < 2
TooLittleMovement(movement) == movement < 2

\* calculate_direction_to_target() on the history and its readings of the
\* last 30 s.  None is << >>, a dict d is <<d>>; a bearing is << >> (None)
\* or <<degrees>>; the confidence is kept in thirds until it is rounded.
calculate_direction_to_target(hist, rec) ==
    IF Len(hist) < 3 \/ Len(rec) < 3 THEN << >>
    ELSE
    LET n == Len(rec)
        first_pos == rec[1]
        last_pos == rec[n]
        movement == haversine_distance(first_pos.lat, first_pos.lon,
                                       last_pos.lat, last_pos.lon)
        movement_bearing == calculate_bearing(first_pos.lat, first_pos.lon,
                                              last_pos.lat, last_pos.lon)
        \* 3 * rssi_delta
        delta3 == (rec[n].rssi + rec[n - 1].rssi + rec[n - 2].rssi)
                  - (rec[1].rssi + rec[2].rssi + rec[3].rssi)
        trend == IF delta3 > 6 THEN "closer"
                 ELSE IF delta3 < -6 THEN "farther" ELSE "stable"
        target_bearing ==
            CASE trend = "closer" -> <<movement_bearing>>
              [] trend = "farther" -> <<(movement_bearing + 180) % 360>>
              [] OTHER -> << >>
        confidence3 ==
            CASE trend = "closer" -> Min(270, 120 + delta3 * 5)
              [] trend = "farther" -> Min(270, 120 - delta3 * 5)
              [] OTHER -> 60
        \* max(recent, key=...): the first of the strongest readings
        strongest ==
            rec[CHOOSE i \in 1..n :
                   /\ \A j \in 1..n : rec[j].rssi <= rec[i].rssi
                   /\ \A j \in 1..(i - 1) : rec[j].rssi < rec[i].rssi]
        spatial == /\ n >= 5
                   /\ haversine_distance(last_pos.lat, last_pos.lon,
                                         strongest.lat, strongest.lon) > 1
        spatial_bearing == calculate_bearing(last_pos.lat, last_pos.lon,
                                             strongest.lat, strongest.lon)
        blended ==
            IF ~spatial THEN <<target_bearing, confidence3>>
            ELSE IF target_bearing # << >>
                THEN <<<<((target_bearing[1] * 6 + spatial_bearing * 4)
                             \div 10) % 360>>,
                       Min(285, confidence3 + 30)>>
                ELSE <<<<spatial_bearing>>, 150>>
    IN IF TooLittleMovement(movement)
          THEN <<[bearing |-> << >>, confidence |-> 0, trend |-> "stable"]>>
          ELSE <<[bearing |-> blended[1],
                  confidence |-> (2 * blended[2] + 3) \div 6,
                  trend |-> trend]>>

NoCall == [called |-> FALSE, result |-> << >>]

InitDir ==
    /\ history = << >>
    /\ recent = << >>
    /\ direction = NoCall

\* add_direction_reading(): append, keep the last MaxReadings
AddDirectionReading ==
    /\ ~direction.called
    /\ \E lat \in {1, 2, 4}, rssi \in {-70, -60} :
          LET h == Append(history, [lat |-> lat, lon |-> 1, rssi |-> rssi])
          IN history' = IF Len(h) > MaxReadings THEN Tail(h) ELSE h
    /\ UNCHANGED <<recent, direction, scanVars, regVars, trackVars, state,
                   estVars, surveyVars,
                   mergeVars,
                   huntVars, alertVars>>

\* GET /api/device/<bd_address>/direction, and active_geo_track line 4986:
\* the readings younger than 30 s are the last k of the history.
CalculateDirection ==
    /\ ~direction.called
    /\ \E k \in 0..Len(history) :
          \E rec \in {SubSeq(history, Len(history) - k + 1, Len(history))} :
             /\ recent' = rec
             /\ direction' =
                   [called |-> TRUE,
                    result |-> calculate_direction_to_target(history, rec)]
    /\ UNCHANGED <<history, scanVars, regVars, trackVars, state, estVars,
                   surveyVars,
                   mergeVars,
                   huntVars, alertVars>>

\* the caller has used the result
DirectionReturned ==
    /\ direction.called
    /\ recent' = << >>
    /\ direction' = NoCall
    /\ UNCHANGED <<history, scanVars, regVars, trackVars, state, estVars,
                   surveyVars,
                   mergeVars,
                   huntVars, alertVars>>

NextDir ==
    \/ AddDirectionReading
    \/ CalculateDirection
    \/ DirectionReturned

\* ================================================================ SpecSurvey
\* The watchlist survey: start_target_survey(), stop_target_survey() and the
\* survey_worker threads.  A thread advances from one blocking call to the
\* next (the probes of target_survey(), the sleep of the wait loop).
\* SpecSurvey follows the threads sweep by sweep, SpecSweep follows one
\* thread through target_survey() probe by probe.

\* survey_worker threads that can be alive at once
MaxWorkers == 2

Workers == 1..MaxWorkers

\* target_survey_sweep_count stops growing here
MaxSweeps == 2

\* seconds one step of the wait loop sleeps (the code sleeps 1 s), scaled up
Tick == 10

\* get_targets_from_db(): the watchlist, in the order of the table
TargetList == <<"AA:BB:CC:DD:EE:FF", "11:22:33:44:55:66">>

Targets == {TargetList[i] : i \in 1..Len(TargetList)}

\* the probes of phase 1 with the SDP probe moved to the front
MethodsSdpFirst == <<"sdp", "name", "info", "l2ping", "connection">>

\* the probes of phase 1, in the order target_survey() runs them
Methods == <<"name", "info", "l2ping", "sdp", "connection">>

\* target_survey(): the method tried after m on one target
NextMethod(m) ==
    LET k == CHOOSE i \in 1..Len(Methods) : Methods[i] = m
    IN Methods[k + 1]

NoWorker == [pc |-> "none", start_number |-> 0, complete_number |-> 0,
             begun |-> 0, waited |-> 0]

NoSweep == [pc |-> "idle", ble_tried |-> FALSE, ble_found |-> {}, i |-> 0,
            tried |-> << >>, emitted |-> EmptyMap, alerts |-> EmptyMap]

NoReply == [status |-> "none", continuous |-> FALSE, interval |-> 0]

InitSurvey ==
    /\ target_survey_active = FALSE
    /\ target_survey_continuous = FALSE
    /\ target_survey_interval = 30
    /\ target_survey_sweep_count = 0
    /\ target_survey_results = EmptyMap
    /\ survey_reply = NoReply
    /\ worker = [w \in Workers |-> NoWorker]
    /\ sweep = NoSweep
    /\ other_pc = "none"
    /\ report = << >>

\* POST /api/scan/target_survey -> start_target_survey(): refused while the
\* flag is set; else the globals are set and a new thread is started.
StartTargetSurvey(continuous, interval) ==
    /\ \E w \in Workers : worker[w].pc \in {"none", "done"}
    /\ IF target_survey_active
          THEN /\ survey_reply' = [survey_reply EXCEPT
                                      !.status = "already_running"]
               /\ UNCHANGED <<target_survey_active, target_survey_continuous,
                              target_survey_interval,
                              target_survey_sweep_count, worker>>
          ELSE /\ target_survey_active' = TRUE
               /\ target_survey_continuous' = continuous
               /\ target_survey_interval' = Max(10, interval)
               /\ target_survey_sweep_count' = 0
               /\ survey_reply' = [status |-> "started",
                                   continuous |-> continuous,
                                   interval |-> interval]
               /\ LET w == CHOOSE x \in Workers :
                              worker[x].pc \in {"none", "done"}
                  IN worker' = [x \in Workers |->
                                  IF x = w THEN [NoWorker EXCEPT !.pc = "while"]
                                  ELSE [worker[x] EXCEPT !.begun = 0]]
    /\ UNCHANGED <<target_survey_results, sweep, other_pc, report, scanVars,
                   regVars, trackVars, state, estVars, dirVars,
                   mergeVars,
                   huntVars, alertVars>>

\* POST /api/scan/target_survey/stop -> stop_target_survey()
StopTargetSurvey ==
    /\ target_survey_active' = FALSE
    /\ target_survey_continuous' = FALSE
    /\ survey_reply' = [survey_reply EXCEPT !.status = "stopped"]
    /\ UNCHANGED <<target_survey_interval, target_survey_sweep_count,
                   target_survey_results, worker, sweep, other_pc, report,
                   scanVars, regVars, trackVars, state, estVars, dirVars,
                   mergeVars,
                   huntVars, alertVars>>

\* survey_worker(), lines 4046-4057 and 4093-4095: the test of the loop.
\* With the flag set a sweep begins: the counter grows, the sweep-start
\* summary carries it, target_survey() empties the results and starts its
\* BLE scan.  With the flag clear the thread ends through its finally.
SurveyLoopTest(w, waited) ==
    IF target_survey_active
        THEN /\ target_survey_sweep_count < MaxSweeps
             /\ target_survey_sweep_count' = target_survey_sweep_count + 1
             /\ worker' = [worker EXCEPT
                    ![w].pc = "sweep",
                    ![w].start_number = target_survey_sweep_count + 1,
                    ![w].begun = @ + 1,
                    ![w].waited = waited]
             /\ target_survey_results' = EmptyMap
             /\ UNCHANGED <<target_survey_active, target_survey_continuous>>
        ELSE /\ target_survey_active' = FALSE
             /\ target_survey_continuous' = FALSE
             /\ worker' = [worker EXCEPT ![w].pc = "done", ![w].waited = waited]
             /\ UNCHANGED <<target_survey_sweep_count, target_survey_results>>

\* the new thread reaches the loop
WorkerStarts(w) ==
    /\ worker[w].pc = "while"
    /\ SurveyLoopTest(w, 0)
    /\ UNCHANGED <<target_survey_interval, survey_reply, sweep, other_pc,
                   report, scanVars, regVars, trackVars, state, estVars,
                   dirVars,
                   mergeVars,
                   huntVars, alertVars>>

\* what target_survey() leaves in target_survey_results: a result for some
\* of the targets (all of them unless the sweep was cancelled), found or not
SweepResults ==
    {[a \in D |-> [present |-> a \in P, detection_phase |-> "classic",
                   method |-> "none", tried |-> << >>]] :
        D \in SUBSET Targets, P \in SUBSET Targets}

\* survey_worker(), lines 4057-4085: target_survey() returns, the
\* sweep-complete summary carries the counter as it is now; a single-mode
\* thread ends, a continuous one starts to wait while the flag is set.
SweepReturns(w) ==
    /\ worker[w].pc = "sweep"
    /\ target_survey_results' \in SweepResults
    /\ IF target_survey_continuous /\ target_survey_active
          THEN /\ worker' = [worker EXCEPT
                     ![w].pc = "wait",
                     ![w].complete_number = target_survey_sweep_count,
                     ![w].waited = 0]
               /\ UNCHANGED <<target_survey_active, target_survey_continuous>>
          ELSE /\ worker' = [worker EXCEPT
                     ![w].pc = "done",
                     ![w].complete_number = target_survey_sweep_count]
               /\ target_survey_active' = FALSE
               /\ target_survey_continuous' = FALSE
    /\ UNCHANGED <<target_survey_interval, target_survey_sweep_count,
                   survey_reply, sweep, other_pc, report, scanVars, regVars,
                   trackVars, state, estVars, dirVars,
                   mergeVars,
                   huntVars, alertVars>>

\* survey_worker(), lines 4084-4085: one sleep of the wait loop returns; the
\* wait goes on while the flag is set and the interval has not passed, else
\* the thread is back at the test of its loop.
WaitTick(w) ==
    /\ worker[w].pc = "wait"
    /\ IF target_survey_active
          /\ worker[w].waited + Tick < target_survey_interval
          THEN /\ worker' = [worker EXCEPT ![w].waited = @ + Tick]
               /\ UNCHANGED <<target_survey_active, target_survey_continuous,
                              target_survey_sweep_count,
                              target_survey_results>>
          ELSE SurveyLoopTest(w, worker[w].waited + Tick)
    /\ UNCHANGED <<target_survey_interval, survey_reply, sweep, other_pc,
                   report, scanVars, regVars, trackVars, state, estVars,
                   dirVars,
                   mergeVars,
                   huntVars, alertVars>>

\* sweep-start summaries emitted since the last accepted start
SweepsBegun ==
    Cardinality({<<w, k>> \in Workers \X (1..MaxSweeps) :
                    k <= worker[w].begun})

\* C19: while a survey started in single mode has not been stopped, no
\* more than one sweep is begun; a survey started in continuous mode stays
\* active until a stop request; and a thread that begins a sweep after a
\* wait has waited max(10, interval) seconds or more.
C19_SingleSweepThenInactive ==
    [][/\ (/\ survey_reply'.status \in {"started", "already_running"}
           /\ ~survey_reply'.continuous) => SweepsBegun' <= 1
       /\ (/\ survey_reply'.status \in {"started", "already_running"}
           /\ survey_reply'.continuous) => target_survey_active'
       /\ \A w \in Workers :
             (worker[w].pc = "wait" /\ worker'[w].pc = "sweep")
                => worker'[w].waited >= Max(10, survey_reply.interval)]_vars

\* C20: a thread's sweep-complete summary carries the sweep_number of its
\* sweep-start summary, and target_survey_sweep_count is the number of
\* sweeps begun since the last start.
C20_SweepNumbersAgree ==
    /\ \A w \in Workers :
          (worker[w].pc \in {"wait", "done"} /\ worker[w].start_number > 0)
             => worker[w].complete_number = worker[w].start_number
    /\ target_survey_sweep_count = SweepsBegun

\* survey_worker threads that have not returned
WorkersRunning == {w \in Workers : worker[w].pc \notin {"none", "done"}}

\* C33: after any interleaving of start and stop requests at most one
\* survey worker is running, and a worker that ends never clears the
\* active flag while another worker (of a survey started after it) runs.
C33_OneWorker ==
    [][/\ Cardinality(WorkersRunning') <= 1
       /\ \A w \in Workers :
             (/\ w \in WorkersRunning
              /\ worker'[w].pc = "done"
              /\ target_survey_active
              /\ ~target_survey_active')
                => WorkersRunning = {w}]_vars

\* intervals a request may name: below the minimum, and above it
Intervals == {5, 20}

NextSurvey ==
    \/ \E continuous \in BOOLEAN, interval \in Intervals :
          StartTargetSurvey(continuous, interval)
    \/ StopTargetSurvey
    \/ \E w \in Workers : WorkerStarts(w)
    \/ \E w \in Workers : SweepReturns(w)
    \/ \E w \in Workers : WaitTick(w)

\* ----------------------------------------------------------------- SpecSweep
\* One survey_worker thread followed through target_survey().  Requests are
\* POSTs with an empty body (single sweep, interval 30).  A request accepted
\* while the followed thread is still alive starts a second thread, of which
\* only the writes to the shared state are kept.

\* a result dict that says present whatever the probes returned
ResultAlwaysPresent(present, phase, method, tried) ==
    [present |-> TRUE, detection_phase |-> phase, method |-> method,
     tried |-> tried]

\* target_survey(), lines 3727-3738 and 3803-3814: a result dict.  tried is
\* the list of the probes that were run for the target.
Result(present, phase, method, tried) ==
    [present |-> present, detection_phase |-> phase, method |-> method,
     tried |-> tried]

\* target_survey(), lines 3745-3753 and 3972-3980 -> process_found_device():
\* the registry after the targets of found were processed as type.
SurveyRegistry(devs, found, type) ==
    [a \in DOMAIN devs \cup found |->
        IF a \in found
            THEN process_found_device(devs, a,
                     [device_type |-> type, device_name |-> NoneV,
                      rssi |-> NoRssi],
                     get_btmon_device_info(a, TRUE), NoRssi)[a]
            ELSE devs[a]]

\* process_found_device(), lines 5506 and 5586-5588: one call of
\* alert_target_found(device, is_new) for every target of found.
SurveyAlerts(alerts, devs, found) ==
    [a \in DOMAIN alerts \cup found |->
        IF a \in found
            THEN Append(IF HasKey(alerts, a) THEN alerts[a] ELSE << >>,
                        ~HasKey(devs, a))
            ELSE alerts[a]]

\* target_survey(), line 3782: remaining_targets
remaining_targets(ble_found) ==
    SelectSeq(TargetList, LAMBDA t : t \notin ble_found)

\* survey_worker(), lines 4065-4095, in single mode: the sweep-complete
\* summary, the break and the finally.
WorkerEnds ==
    /\ target_survey_active' = FALSE
    /\ target_survey_continuous' = FALSE

\* POST /api/scan/target_survey with an empty body
SurveyRequest ==
    /\ sweep.pc \in {"idle", "done"} \/ other_pc \in {"none", "done"}
    /\ IF target_survey_active
          THEN /\ survey_reply' = [survey_reply EXCEPT
                                      !.status = "already_running"]
               /\ UNCHANGED <<target_survey_active, target_survey_continuous,
                              target_survey_interval,
                              target_survey_sweep_count, sweep, other_pc>>
          ELSE /\ target_survey_active' = TRUE
               /\ target_survey_continuous' = FALSE
               /\ target_survey_interval' = Max(10, 30)
               /\ target_survey_sweep_count' = 0
               /\ survey_reply' = [status |-> "started",
                                   continuous |-> FALSE, interval |-> 30]
               /\ IF sweep.pc \in {"idle", "done"}
                     THEN /\ sweep' = [NoSweep EXCEPT !.pc = "while"]
                          /\ UNCHANGED other_pc
                     ELSE /\ other_pc' = "while"
                          /\ UNCHANGED sweep
    /\ UNCHANGED <<target_survey_results, worker, report, scanVars, regVars,
                   trackVars, state, estVars, dirVars,
                   mergeVars,
                   huntVars, alertVars>>

\* survey_worker(), line 4046, and target_survey() up to its BLE scan
SweepBegins ==
    /\ sweep.pc = "while"
    /\ IF target_survey_active
          THEN /\ target_survey_sweep_count' = target_survey_sweep_count + 1
               /\ target_survey_results' = EmptyMap
               /\ sweep' = [sweep EXCEPT !.pc = "ble", !.ble_tried = TRUE]
               /\ UNCHANGED <<target_survey_active, target_survey_continuous>>
          ELSE /\ WorkerEnds
               /\ sweep' = [sweep EXCEPT !.pc = "done"]
               /\ UNCHANGED <<target_survey_sweep_count,
                              target_survey_results>>
    /\ report' = << >>
    /\ UNCHANGED <<target_survey_interval, survey_reply, worker, other_pc,
                   scanVars, regVars, trackVars, state, estVars, dirVars,
                   mergeVars,
                   huntVars, alertVars>>

\* ble_scan_for_targets(), lines 3612-3615: a line of the scan's output is
\* read; with the flag clear the scan is terminated and the loop left.
BleScanLine ==
    /\ sweep.pc = "ble"
    /\ sweep' = IF target_survey_active THEN sweep
                ELSE [sweep EXCEPT !.pc = "cut"]
    /\ UNCHANGED <<target_survey_active, target_survey_continuous,
                   target_survey_interval, target_survey_sweep_count,
                   target_survey_results, survey_reply, worker, other_pc,
                   report, scanVars, regVars, trackVars, state, estVars,
                   dirVars,
                   mergeVars,
                   huntVars, alertVars>>

\* target_survey(), lines 3720-3756: ble_scan_for_targets() returns found
\* (at the end of the scan, or cut short by a clear flag); every target of
\* it gets a result and is processed; then the flag is read.
BleScanned(found) ==
    /\ sweep.pc \in {"ble", "cut"}
    /\ \E res \in {[a \in found |->
                      Result(TRUE, "ble", "ble_advertisement", << >>)]} :
          /\ target_survey_results' =
                [a \in DOMAIN target_survey_results \cup found |->
                    IF a \in found THEN res[a] ELSE target_survey_results[a]]
          /\ sweep' = [sweep EXCEPT
                 !.pc = IF target_survey_active THEN "setup" ELSE "done",
                 !.ble_found = found,
                 !.emitted = res,
                 !.alerts = SurveyAlerts(sweep.alerts, devices, found)]
    /\ devices' = SurveyRegistry(devices, found, "ble")
    /\ IF target_survey_active
          THEN UNCHANGED <<target_survey_active, target_survey_continuous>>
          ELSE WorkerEnds
    /\ UNCHANGED <<target_survey_interval, target_survey_sweep_count,
                   survey_reply, worker, other_pc, report, btmon_device_cache,
                   btmon_rssi_cache, rssi_history, current_location, ctl_type,
                   scanVars, trackVars, state, estVars, dirVars,
                   mergeVars,
                   huntVars, alertVars>>

\* target_survey(), lines 3785-3788 and 3988-4006: the head of the loop over
\* the remaining targets for the i-th of them, after results were stored.
\* Past the last target, or with the flag clear, the summary is emitted and
\* the thread ends; else the first probe of the target is started.
NextTarget(i, results, emitted, alerts) ==
    IF i <= Len(remaining_targets(sweep.ble_found)) /\ target_survey_active
        THEN /\ sweep' = [sweep EXCEPT
                   !.pc = "probe", !.i = i, !.tried = <<Methods[1]>>,
                   !.emitted = emitted, !.alerts = alerts]
             /\ UNCHANGED <<target_survey_active, target_survey_continuous,
                            report>>
        ELSE /\ sweep' = [sweep EXCEPT
                   !.pc = "done", !.emitted = emitted, !.alerts = alerts]
             /\ report' = <<results>>
             /\ WorkerEnds

\* target_survey(), lines 3767-3779: the page timeout is set
PagingSetUp ==
    /\ sweep.pc = "setup"
    /\ NextTarget(1, target_survey_results, sweep.emitted, sweep.alerts)
    /\ UNCHANGED <<target_survey_interval, target_survey_sweep_count,
                   target_survey_results, survey_reply, worker, other_pc,
                   scanVars, regVars, trackVars, state, estVars, dirVars,
                   mergeVars,
                   huntVars, alertVars>>

\* target_survey(), lines 3816-3986: the probe in progress returns, answered
\* or not.  After every probe but the last the flag is read, and a clear
\* flag leaves the loop without a result.  An answer, or the end of the
\* list of methods, stores the result, emits it and processes the target
\* when it is present; else the next method is tried.
ProbeReturns(responded) ==
    LET remaining == remaining_targets(sweep.ble_found)
        a == remaining[sweep.i]
        m == sweep.tried[Len(sweep.tried)]
        last == m = Methods[Len(Methods)]
        found == IF responded THEN {a} ELSE {}
        result == Result(responded, "classic",
                         IF responded THEN m ELSE "none", sweep.tried)
        results == Put(target_survey_results, a, result)
        emitted == Put(sweep.emitted, a, result)
        alerts == SurveyAlerts(sweep.alerts, devices, found)
    IN
    /\ sweep.pc = "probe"
    /\ IF ~last /\ ~target_survey_active
          THEN /\ NextTarget(Len(remaining) + 1, target_survey_results,
                             sweep.emitted, sweep.alerts)
               /\ UNCHANGED <<target_survey_results, devices>>
          ELSE IF responded \/ last
             THEN /\ target_survey_results' = results
                  /\ devices' = SurveyRegistry(devices, found, "classic")
                  /\ IF sweep.i < Len(remaining)
                        THEN /\ sweep' = [sweep EXCEPT
                                   !.pc = "settle", !.emitted = emitted,
                                   !.alerts = alerts]
                             /\ UNCHANGED <<target_survey_active,
                                            target_survey_continuous, report>>
                        ELSE NextTarget(sweep.i + 1, results, emitted, alerts)
             ELSE /\ sweep' = [sweep EXCEPT
                        !.tried = Append(@, NextMethod(m))]
                  /\ UNCHANGED <<target_survey_active,
                                 target_survey_continuous, report,
                                 target_survey_results, devices>>
    /\ UNCHANGED <<target_survey_interval, target_survey_sweep_count,
                   survey_reply, worker, other_pc, btmon_device_cache,
                   btmon_rssi_cache, rssi_history, current_location, ctl_type,
                   scanVars, trackVars, state, estVars, dirVars,
                   mergeVars,
                   huntVars, alertVars>>

\* target_survey(), lines 3985-3986: the pause between two targets is over
Settled ==
    /\ sweep.pc = "settle"
    /\ NextTarget(sweep.i + 1, target_survey_results, sweep.emitted,
                  sweep.alerts)
    /\ UNCHANGED <<target_survey_interval, target_survey_sweep_count,
                   target_survey_results, survey_reply, worker, other_pc,
                   scanVars, regVars, trackVars, state, estVars, dirVars,
                   mergeVars,
                   huntVars, alertVars>>

\* the second thread reaches its loop: as SweepBegins
OtherBegins ==
    /\ other_pc = "while"
    /\ IF target_survey_active
          THEN /\ target_survey_sweep_count' = target_survey_sweep_count + 1
               /\ target_survey_results' = EmptyMap
               /\ other_pc' = "sweep"
               /\ UNCHANGED <<target_survey_active, target_survey_continuous>>
          ELSE /\ WorkerEnds
               /\ other_pc' = "done"
               /\ UNCHANGED <<target_survey_sweep_count,
                              target_survey_results>>
    /\ UNCHANGED <<target_survey_interval, survey_reply, worker, sweep,
                   report, scanVars, regVars, trackVars, state, estVars,
                   dirVars,
                   mergeVars,
                   huntVars, alertVars>>

\* the second thread stores the result of a target (lines 3739, 3964) and
\* processes the target when it is present
OtherStores(a, phase) ==
    /\ other_pc = "sweep"
    /\ target_survey_results' =
          Put(target_survey_results, a,
              Result(phase # "none", IF phase = "ble" THEN "ble" ELSE "classic",
                     "none", << >>))
    /\ devices' = SurveyRegistry(devices,
                                 IF phase = "none" THEN {} ELSE {a}, phase)
    /\ UNCHANGED <<target_survey_active, target_survey_continuous,
                   target_survey_interval, target_survey_sweep_count,
                   survey_reply, worker, sweep, other_pc, report,
                   btmon_device_cache, btmon_rssi_cache, rssi_history,
                   current_location, ctl_type, scanVars, trackVars, state,
                   estVars, dirVars,
                   mergeVars,
                   huntVars, alertVars>>

\* the second thread's target_survey() returns and the thread ends
OtherReturns ==
    /\ other_pc = "sweep"
    /\ other_pc' = "done"
    /\ WorkerEnds
    /\ UNCHANGED <<target_survey_interval, target_survey_sweep_count,
                   target_survey_results, survey_reply, worker, sweep, report,
                   scanVars, regVars, trackVars, state, estVars, dirVars,
                   mergeVars,
                   huntVars, alertVars>>

\* C17: in a sweep that handled every target, each target found by the BLE
\* scan is in the sweep's report as present with phase ble, each target no
\* method got an answer from is in the report as not present, and
\* alert_target_found() was called once for a present target and never for
\* an absent one.
C17_SweepReport ==
    (/\ sweep.pc = "done"
     /\ report # << >>
     /\ DOMAIN sweep.emitted = Targets) =>
        \A a \in Targets :
           /\ a \in sweep.ble_found =>
                 /\ HasKey(report[1], a)
                 /\ report[1][a].present
                 /\ report[1][a].detection_phase = "ble"
           /\ ~sweep.emitted[a].present =>
                 /\ HasKey(report[1], a)
                 /\ ~report[1][a].present
           /\ sweep.emitted[a].present =>
                 HasKey(sweep.alerts, a) /\ Len(sweep.alerts[a]) = 1
           /\ ~sweep.emitted[a].present => ~HasKey(sweep.alerts, a)

\* probes that need a connection to the target
ConnectionOriented == {"l2ping", "connection"}

\* C18 as stated: the BLE scan has run before any probe, the SDP probe is
\* run before every connection-oriented probe of a target, and no probe
\* follows an answer.
C18_SdpBeforeConnection ==
    /\ sweep.pc = "probe" => sweep.ble_tried
    /\ \A p \in 1..Len(sweep.tried) :
          sweep.tried[p] \in ConnectionOriented =>
             \E q \in 1..(p - 1) : sweep.tried[q] = "sdp"
    /\ \A a \in DOMAIN sweep.emitted :
          sweep.emitted[a].present /\ sweep.emitted[a].tried # << >> =>
             sweep.emitted[a].method
                = sweep.emitted[a].tried[Len(sweep.emitted[a].tried)]

\* C18, amended: the BLE scan has run before any probe and a target it found
\* is not probed; the probes of a target run in the order name request,
\* info request, L2CAP ping, SDP probe, direct connection (the SDP probe
\* after the L2CAP ping, before the direct connection); the probe that got
\* an answer is the last one run for the target, and a target reported
\* absent had all five.
C18_ProbeOrder ==
    LET order == <<"name", "info", "l2ping", "sdp", "connection">>
    IN
    /\ sweep.pc = "probe" =>
          /\ sweep.ble_tried
          /\ remaining_targets(sweep.ble_found)[sweep.i] \notin sweep.ble_found
          /\ ~HasKey(sweep.emitted,
                     remaining_targets(sweep.ble_found)[sweep.i])
          /\ sweep.tried = SubSeq(order, 1, Len(sweep.tried))
    /\ \A a \in DOMAIN sweep.emitted :
          LET r == sweep.emitted[a]
          IN IF a \in sweep.ble_found
                THEN r.tried = << >> /\ r.detection_phase = "ble"
                ELSE /\ r.tried = SubSeq(order, 1, Len(r.tried))
                     /\ r.tried # << >>
                     /\ r.present => r.method = r.tried[Len(r.tried)]
                     /\ ~r.present => r.tried = order

\* a sweep in which one target was found by the BLE scan and the other
\* answered the SDP probe, after the name request, the info request and the
\* L2CAP ping had failed
C18_Witness ==
    /\ sweep.pc = "done"
    /\ sweep.ble_found = {TargetList[1]}
    /\ HasKey(sweep.emitted, TargetList[2])
    /\ sweep.emitted[TargetList[2]].present
    /\ sweep.emitted[TargetList[2]].tried
          = <<"name", "info", "l2ping", "sdp">>

\* C21: a survey thread that has read the flag as clear after a stop
\* request (no start has followed) merges nothing more into the registry.
C21_NoMergeAfterStopObserved ==
    [][(/\ sweep.pc = "cut"
        /\ sweep'.pc # "cut"
        /\ survey_reply.status = "stopped"
        /\ survey_reply'.status = "stopped")
          => devices' = devices]_vars

\* the target whose probe is in progress
Probed == remaining_targets(sweep.ble_found)[sweep.i]

\* C32: while the survey is active, a probe that got no answer (timeout,
\* error, empty output) is followed by the next method for the same target,
\* and the sweep goes on; the target is reported present when a method got
\* an answer and absent when all five methods got none.
C32_FallThroughAndPresence ==
    [][(sweep.pc = "probe" /\ target_survey_active) =>
       LET order == <<"name", "info", "l2ping", "sdp", "connection">>
           n == Len(sweep.tried)
       IN
          /\ ProbeReturns(FALSE) =>
                IF n < Len(order)
                   THEN /\ sweep'.pc = "probe"
                        /\ sweep'.i = sweep.i
                        /\ sweep'.tried = SubSeq(order, 1, n + 1)
                        /\ target_survey_results' = target_survey_results
                   ELSE /\ sweep'.pc \in {"settle", "probe", "done"}
                        /\ HasKey(target_survey_results', Probed)
                        /\ ~target_survey_results'[Probed].present
                        /\ target_survey_results'[Probed].tried = order
                        /\ devices' = devices
          /\ ProbeReturns(TRUE) =>
                /\ HasKey(target_survey_results', Probed)
                /\ target_survey_results'[Probed].present
                /\ target_survey_results'[Probed].method = order[n]
                /\ HasKey(devices', Probed)]_vars

\* a sweep in which one target answered its third probe after two that got
\* no answer, and the other target got no answer from any of the five
C32_Witness ==
    \E a, b \in Targets :
        /\ HasKey(sweep.emitted, a) /\ HasKey(sweep.emitted, b)
        /\ sweep.emitted[a].present
        /\ sweep.emitted[a].tried = <<"name", "info", "l2ping">>
        /\ ~sweep.emitted[b].present
        /\ sweep.emitted[b].tried = Methods

\* C34: a target for which a probe received a response is recorded as
\* present in target_survey_results and handed to process_found_device,
\* also when a stop request arrived while the target was being probed.
C34_AnsweredTargetRecorded ==
    [][(sweep.pc = "probe" /\ ProbeReturns(TRUE)) =>
          /\ HasKey(target_survey_results', Probed)
          /\ target_survey_results'[Probed].present
          /\ HasKey(devices', Probed)]_vars

NextSweep ==
    \/ SurveyRequest
    \/ StopTargetSurvey
    \/ SweepBegins
    \/ BleScanLine
    \/ \E found \in SUBSET Targets : BleScanned(found)
    \/ PagingSetUp
    \/ \E responded \in BOOLEAN : ProbeReturns(responded)
    \/ Settled
    \/ OtherBegins
    \/ \E a \in Targets, phase \in {"ble", "classic", "none"} :
          OtherStores(a, phase)
    \/ OtherReturns

\* ================================================================== SpecRace
\* process_found_device() as the threads run it.  A call advances from one
\* blocking operation (a query of the database, an RSSI probe) to the next;
\* nothing guards the registry between them.  SpecRace has the calls alone,
\* SpecWatch adds the operator's requests on the registry and the watchlist.

\* process_found_device() calls that may be made
MaxMergers == 2

Mergers == 1..MaxMergers

\* a call that has not been made; alert is the list of the is_new flags
\* alert_target_found() was called with
NoMerge == [pc |-> "idle", addr |-> NoneV, info |-> NoData, is_new |-> FALSE,
            is_target |-> FALSE, rssi |-> NoRssi, alert |-> << >>]

InitMerge ==
    /\ targets = {}
    /\ merge = [t \in Mergers |-> NoMerge]
    /\ is_target = EmptyMap

\* the device_info dicts of the area scan
FoundInfos ==
    {[device_type |-> "classic", device_name |-> n, rssi |-> r] :
        n \in ScanNames, r \in OptRssi}

\* devices[bd_addr] raises KeyError: the call ends in its caller's handler
Raises(t) == [merge EXCEPT ![t].pc = "failed"]

\* process_found_device(), lines 5480-5517: the enrichment, is_new, and the
\* update of the record or its creation (a new record has no is_target).
MergeBegins(t, a, info) ==
    /\ merge[t].pc = "idle"
    /\ devices' = process_found_device(devices, a, info,
                                       get_btmon_device_info(a, TRUE), NoRssi)
    /\ is_target' = IF HasKey(devices, a) THEN is_target
                    ELSE Put(is_target, a, FALSE)
    /\ merge' = [merge EXCEPT ![t] =
          [NoMerge EXCEPT
             !.pc = "query", !.addr = a,
             !.info = Enrich(info, get_btmon_device_info(a, TRUE)),
             !.is_new = ~HasKey(devices, a)]]
    /\ UNCHANGED <<targets, emitter, writer, btmon_device_cache,
                   btmon_rssi_cache, rssi_history, current_location, ctl_type,
                   scanVars, trackVars, state, estVars, dirVars, surveyVars,
                   huntVars, alertVars>>

\* process_found_device(), lines 5519-5525: SELECT * FROM targets WHERE ..
TargetQueried(t) ==
    /\ merge[t].pc = "query"
    /\ merge' = [merge EXCEPT ![t].pc = "flag",
                              ![t].is_target = merge[t].addr \in targets]
    /\ UNCHANGED <<targets, is_target, emitter, writer, regVars, scanVars,
                   trackVars, state, estVars, dirVars, surveyVars,
                   huntVars, alertVars>>

\* process_found_device(), lines 5529-5543: the RSSI probes are run when
\* neither device_info nor the legacy cache has an rssi
NeedsProbe(t) ==
    /\ merge[t].info.rssi = NoRssi
    /\ get_btmon_rssi(merge[t].addr, TRUE) = NoRssi

\* process_found_device(), lines 5545-5547: if rssi: the record takes it
RssiWritten(devs, a, rssi) ==
    IF Truthy(rssi) THEN [devs EXCEPT ![a].rssi = rssi] ELSE devs

\* process_found_device(), lines 5526-5547: is_target is written into the
\* record; then the rssi of device_info or of the legacy cache is written,
\* or the probes are started.
FlagWritten(t) ==
    LET a == merge[t].addr
        rssi == FoundRssi(merge[t].info, get_btmon_rssi(a, TRUE))
    IN
    /\ merge[t].pc = "flag"
    /\ IF ~HasKey(devices, a)
          THEN /\ merge' = Raises(t)
               /\ UNCHANGED <<devices, is_target>>
          ELSE /\ is_target' = [is_target EXCEPT ![a] = merge[t].is_target]
               /\ IF NeedsProbe(t)
                     THEN /\ merge' = [merge EXCEPT ![t].pc = "rssi"]
                          /\ UNCHANGED devices
                     ELSE /\ merge' = [merge EXCEPT ![t].pc = "log",
                                                    ![t].rssi = rssi]
                          /\ devices' = RssiWritten(devices, a, rssi)
    /\ UNCHANGED <<targets, emitter, writer, btmon_device_cache,
                   btmon_rssi_cache, rssi_history, current_location, ctl_type,
                   scanVars, trackVars, state, estVars, dirVars, surveyVars,
                   huntVars, alertVars>>

\* process_found_device(), lines 5536-5547: the probes returned rssi (None
\* when the device did not answer)
RssiProbed(t, rssi) ==
    LET a == merge[t].addr
    IN
    /\ merge[t].pc = "rssi"
    /\ IF Truthy(rssi) /\ ~HasKey(devices, a)
          THEN /\ merge' = Raises(t)
               /\ UNCHANGED devices
          ELSE /\ merge' = [merge EXCEPT ![t].pc = "log", ![t].rssi = rssi]
               /\ devices' = RssiWritten(devices, a, rssi)
    /\ UNCHANGED <<targets, is_target, emitter, writer, btmon_device_cache,
                   btmon_rssi_cache, rssi_history, current_location, ctl_type,
                   scanVars, trackVars, state, estVars, dirVars, surveyVars,
                   huntVars, alertVars>>

\* process_found_device(), lines 5560-5590: the row is logged (it reads
\* devices[bd_addr]), the update is emitted, and alert_target_found() is
\* called with is_new when the address was found in the targets table.
MergeEnds(t) ==
    /\ merge[t].pc = "log"
    /\ merge' = IF ~HasKey(devices, merge[t].addr) THEN Raises(t)
                ELSE [merge EXCEPT
                        ![t].pc = "done",
                        ![t].alert = IF merge[t].is_target
                                        THEN <<merge[t].is_new>> ELSE << >>]
    /\ UNCHANGED <<targets, is_target, emitter, writer, regVars, scanVars,
                   trackVars, state, estVars, dirVars, surveyVars,
                   huntVars, alertVars>>

\* the registry after the calls of ts ran one after the other, in every order
RECURSIVE SerialResults(_, _)
SerialResults(ts, devs) ==
    IF ts = {} THEN {devs}
    ELSE UNION {SerialResults(ts \ {t},
                    process_found_device(devs, merge[t].addr, merge[t].info,
                                         NoData, merge[t].rssi)) : t \in ts}

MergesDone == {t \in Mergers : merge[t].pc = "done"}

NoMergeInFlight == \A t \in Mergers : merge[t].pc \in {"idle", "done"}

NextRace ==
    \/ \E t \in Mergers, a \in Addrs, info \in FoundInfos :
          MergeBegins(t, a, info)
    \/ \E t \in Mergers : TargetQueried(t)
    \/ \E t \in Mergers : FlagWritten(t)
    \/ \E t \in Mergers, rssi \in OptRssi : RssiProbed(t, rssi)
    \/ \E t \in Mergers : MergeEnds(t)

\* ================================================================= SpecWatch
\* The operator's requests on the registry and the watchlist, next to the
\* process_found_device() calls in flight.

\* clear_devices(): devices = {}.  The global is bound to a new dict; a call
\* in flight reads the global again at its next devices[bd_addr].
ClearDevices ==
    /\ devices # EmptyMap
    /\ devices' = EmptyMap
    /\ is_target' = EmptyMap
    /\ UNCHANGED <<targets, merge, emitter, writer, btmon_device_cache,
                   btmon_rssi_cache, rssi_history, current_location, ctl_type,
                   scanVars, trackVars, state, estVars, dirVars, surveyVars,
                   huntVars, alertVars>>

\* manage_targets() POST: INSERT OR REPLACE INTO targets, then the flag of
\* the record if the registry has one.
AddTarget(a) ==
    /\ targets' = targets \cup {a}
    /\ is_target' = IF HasKey(devices, a)
                       THEN [is_target EXCEPT ![a] = TRUE] ELSE is_target
    /\ UNCHANGED <<merge, emitter, writer, regVars, scanVars, trackVars,
                   state, estVars, dirVars, surveyVars,
                   huntVars, alertVars>>

\* delete_target(): DELETE FROM targets, then the flag of the record.
DeleteTarget(a) ==
    /\ a \in targets
    /\ targets' = targets \ {a}
    /\ is_target' = IF HasKey(devices, a)
                       THEN [is_target EXCEPT ![a] = FALSE] ELSE is_target
    /\ UNCHANGED <<merge, emitter, writer, regVars, scanVars, trackVars,
                   state, estVars, dirVars, surveyVars,
                   huntVars, alertVars>>

\* save_target_to_db(): a target synced from a peer is inserted when the
\* table has none for the address; the registry is not touched.
SyncTarget(a) ==
    /\ a \notin targets
    /\ targets' = targets \cup {a}
    /\ UNCHANGED <<is_target, merge, emitter, writer, regVars, scanVars,
                   trackVars, state, estVars, dirVars, surveyVars,
                   huntVars, alertVars>>

MergesReturned == \A t \in Mergers : merge[t].pc \in {"idle", "done", "failed"}

\* C25: a record stays in the registry until clear_devices: no step other
\* than a clear takes an address out of the registry; and a clear next to a
\* merge in flight never makes the merge fail (no call ends by raising).
C25_RecordStaysAndMergeSurvives ==
    [][/\ (\A a \in DOMAIN devices : a \in DOMAIN devices') \/ ClearDevices
       /\ \A t \in Mergers : merge'[t].pc # "failed"]_vars

\* C26: after every completed operation (no merge is in flight; the
\* requests are single steps) each device of the registry has is_target
\* true exactly when the targets table has an entry for its address.
C26_FlagMatchesWatchlist ==
    MergesReturned =>
        \A a \in DOMAIN devices : is_target[a] <=> a \in targets

\* C27: every merge of an observation whose address the merge found in the
\* targets table calls alert_target_found() once, with is_new true exactly
\* when the address was not in the registry when the merge began.
C27_EveryDetectionAlerts ==
    [][\A t \in Mergers, a \in Addrs :
          /\ MergeBegins(t, a, merge'[t].info) =>
                merge'[t].is_new = ~HasKey(devices, a)
          /\ (/\ merge[t].pc \notin {"idle", "done", "failed"}
              /\ merge'[t].pc \in {"done", "failed"}
              /\ merge[t].is_target)
                => merge'[t].alert = <<merge[t].is_new>>]_vars

NextWatch ==
    \/ \E t \in Mergers, a \in Addrs, info \in FoundInfos :
          MergeBegins(t, a, info)
    \/ \E t \in Mergers : TargetQueried(t)
    \/ \E t \in Mergers : FlagWritten(t)
    \/ \E t \in Mergers, rssi \in OptRssi : RssiProbed(t, rssi)
    \/ \E t \in Mergers : MergeEnds(t)
    \/ ClearDevices
    \/ \E a \in Addrs : AddTarget(a)
    \/ \E a \in Addrs : DeleteTarget(a)
    \/ \E a \in Addrs : SyncTarget(a)

\* ================================================================ SpecLocate
\* The stored location estimate of a record: emitter_lat, emitter_lon and
\* emitter_accuracy are three assignments, made by the geo loop, by a
\* tracking session, by a merge with a signal strength, and (None) by the
\* geo reset request.  The threads are operating-system threads
\* (async_mode = 'threading') and nothing guards the record, so another
\* writer's assignments can fall between any two of them.

\* estimator runs (and reset requests) one writer may make
MaxRuns == 2

Estimators == {"geo", "track", "merge"}
Writers == Estimators \cup {"reset"}

\* no assignment under way, no run made
InitLocate ==
    /\ emitter = EmptyMap
    /\ writer = [w \in Writers |-> [pc |-> 0, run |-> 0]]

NoEstimate == [emitter_lat |-> NoneV, emitter_lon |-> NoneV,
               emitter_accuracy |-> NoneV]

\* the three fields of devices[a]; a record without them reads as None
EstimateOf(a) == IF HasKey(emitter, a) THEN emitter[a] ELSE NoEstimate

\* the result of run k of an estimator: its lat, lon and radius carry the
\* run they were computed in
Location(w, k) == [emitter_lat |-> <<w, k>>, emitter_lon |-> <<w, k>>,
                   emitter_accuracy |-> <<w, k>>]

\* the order of the assignments, the same at all four places
Fields == <<"emitter_lat", "emitter_lon", "emitter_accuracy">>

\* devices[a][field] = value
FieldSet(a, field, value) ==
    Put(emitter, a, [EstimateOf(a) EXCEPT ![field] = value])

\* one of the three assignments of writer w: the first begins a run
Assigns(w, a, loc) ==
    /\ emitter' = FieldSet(a, Fields[writer[w].pc + 1],
                           loc[Fields[writer[w].pc + 1]])
    /\ writer' = [writer EXCEPT
                    ![w].pc = (writer[w].pc + 1) % Len(Fields),
                    ![w].run = IF writer[w].pc = 0
                                  THEN writer[w].run + 1 ELSE writer[w].run]
    /\ UNCHANGED <<targets, merge, is_target, regVars, scanVars, trackVars,
                   state, estVars, dirVars, surveyVars,
                   huntVars, alertVars>>

\* the run an assignment of w belongs to
RunOf(w) == IF writer[w].pc = 0 THEN writer[w].run + 1 ELSE writer[w].run

\* continuous_geo_loop(), lines 4812-4816; active_geo_track(), lines
\* 5010-5013; process_found_device(), lines 5553-5556: 'if location and
\* bd_address in devices', then the three assignments of the run's result.
EstimateAssigned(w, a) ==
    /\ w \in Estimators
    /\ writer[w].pc > 0 \/ (writer[w].run < MaxRuns /\ HasKey(devices, a))
    /\ Assigns(w, a, Location(w, RunOf(w)))

\* reset_device_geo(), lines 6908-6911: 'if bd_address in devices', then
\* None is assigned to the three fields.
ResetAssigned(a) ==
    /\ writer["reset"].pc > 0
          \/ (writer["reset"].run < MaxRuns /\ HasKey(devices, a))
    /\ Assigns("reset", a, NoEstimate)

\* process_found_device() for an address not in the registry, without a
\* signal strength: the record is created and no estimate is computed
\* ('if rssi', line 5551).
DeviceSeen(a, info) ==
    /\ ~HasKey(devices, a)
    /\ info.rssi = NoRssi
    /\ devices' = process_found_device(devices, a, info, NoData, NoRssi)
    /\ UNCHANGED <<mergeVars, btmon_device_cache, btmon_rssi_cache,
                   rssi_history, current_location, ctl_type, scanVars,
                   trackVars, state, estVars, dirVars, surveyVars,
                   huntVars, alertVars>>

NoWriteInFlight == \A w \in Writers : writer[w].pc = 0

\* C30: the stored estimate (lat, lon, radius) of a device comes entirely
\* from one estimator run: when no writer is between its assignments, the
\* three fields carry the result of one run, or are all None; no
\* interleaving of geo loop, tracking, merge and geo reset mixes them.
C30_EstimateFromOneRun ==
    NoWriteInFlight =>
        \A a \in DOMAIN emitter :
            \/ emitter[a] = NoEstimate
            \/ \E w \in Estimators, k \in 1..MaxRuns :
                  emitter[a] = Location(w, k)

NextLocate ==
    \/ \E a \in Addrs, info \in FoundInfos : DeviceSeen(a, info)
    \/ \E w \in Estimators, a \in Addrs : EstimateAssigned(w, a)
    \/ \E a \in Addrs : ResetAssigned(a)

\* ================================================================== SpecHunt
\* start_hidden_device_hunt / stop_hidden_device_hunt and the hunt_worker
\* threads.  A worker advances from one blocking call to the next; the five
\* phases of hidden_device_hunt() are each followed by a test of the flag.

\* hunt_worker threads that may be created
MaxHunters == 2

Hunters == 1..MaxHunters

\* the phases of hidden_device_hunt(): adapter set-up, BLE scan, classic
\* inquiry, probes of known addresses, name resolution
HuntPhases == 5

\* a thread not created; phases: the phases it has run; stop_requested:
\* stop_hidden_device_hunt() was called while the thread was alive;
\* found: the hunt returned a device
NoHunter == [pc |-> "none", phases |-> 0, stop_requested |-> FALSE,
             found |-> FALSE]

InitHunt ==
    /\ hidden_scan_active = FALSE
    /\ hunt = [h \in Hunters |-> NoHunter]
    /\ hunt_reply = NoneV

\* start_hidden_device_hunt(), lines 3545-3567: refused while the flag is
\* set; else the flag is set and a hunt_worker thread is started.
StartHiddenHunt ==
    /\ hidden_scan_active \/ \E h \in Hunters : hunt[h].pc = "none"
    /\ IF hidden_scan_active
          THEN /\ hunt_reply' = FALSE
               /\ UNCHANGED <<hidden_scan_active, hunt>>
          ELSE /\ hidden_scan_active' = TRUE
               /\ hunt_reply' = TRUE
               /\ hunt' = [hunt EXCEPT
                     ![CHOOSE h \in Hunters : hunt[h].pc = "none"] =
                        [NoHunter EXCEPT !.pc = "entry"]]
    /\ UNCHANGED <<scanVars, regVars, trackVars, state, estVars, dirVars,
                   surveyVars, mergeVars, alertVars>>

\* stop_hidden_device_hunt(), lines 3570-3574
StopHiddenHunt ==
    /\ hidden_scan_active' = FALSE
    /\ hunt' = [h \in Hunters |->
                  IF hunt[h].pc \in {"none", "done"} THEN hunt[h]
                  ELSE [hunt[h] EXCEPT !.stop_requested = TRUE]]
    /\ UNCHANGED <<hunt_reply, scanVars, regVars, trackVars, state, estVars,
                   dirVars, surveyVars, mergeVars, alertVars>>

\* hunt_worker() -> hidden_device_hunt(), lines 3326-3342: with the flag set
\* the hunt logs 'already running' and returns []; the worker has nothing
\* to process and its finally clears the flag.  With the flag clear the
\* hunt sets it and starts phase 1.
HuntEnters(h) ==
    /\ hunt[h].pc = "entry"
    /\ IF hidden_scan_active
          THEN /\ hidden_scan_active' = FALSE
               /\ hunt' = [hunt EXCEPT ![h].pc = "done"]
          ELSE /\ hidden_scan_active' = TRUE
               /\ hunt' = [hunt EXCEPT ![h].pc = "phase"]
    /\ UNCHANGED <<hunt_reply, scanVars, regVars, trackVars, state, estVars,
                   dirVars, surveyVars, mergeVars, alertVars>>

\* hidden_device_hunt(), lines 3336-3542: the blocking call of a phase
\* returns (found: the hunt has a device to return).  After the last phase,
\* or with the flag clear at the test that follows a phase, the hunt
\* returns and its finally clears the flag; the worker goes on to process
\* the devices returned.
HuntPhaseEnds(h, found) ==
    /\ hunt[h].pc = "phase"
    /\ found => hunt[h].phases >= 1
    /\ IF hunt[h].phases + 1 = HuntPhases \/ ~hidden_scan_active
          THEN /\ hidden_scan_active' = FALSE
               /\ hunt' = [hunt EXCEPT ![h].phases = @ + 1,
                                       ![h].found = found,
                                       ![h].pc = "process"]
          ELSE /\ hunt' = [hunt EXCEPT ![h].phases = @ + 1]
               /\ UNCHANGED hidden_scan_active
    /\ UNCHANGED <<hunt_reply, scanVars, regVars, trackVars, state, estVars,
                   dirVars, surveyVars, mergeVars, alertVars>>

\* hunt_worker(), lines 3559-3562: process_found_device() for the devices
\* returned, then the finally clears the flag.
HuntProcessed(h, a) ==
    /\ hunt[h].pc = "process"
    /\ devices' = IF hunt[h].found
                     THEN process_found_device(devices, a,
                              [device_type |-> "ble", device_name |-> NoneV,
                               rssi |-> NoRssi],
                              get_btmon_device_info(a, TRUE), NoRssi)
                     ELSE devices
    /\ hidden_scan_active' = FALSE
    /\ hunt' = [hunt EXCEPT ![h].pc = "done"]
    /\ UNCHANGED <<hunt_reply, btmon_device_cache, btmon_rssi_cache,
                   rssi_history, current_location, ctl_type, scanVars,
                   trackVars, state, estVars, dirVars, surveyVars, mergeVars,
                   alertVars>>

\* C35: a hunt_worker started by a start that returned True runs the scan
\* phases of the hunt; it ends without having run a phase only when a stop
\* was requested while it was alive.
C35_HuntScans ==
    \A h \in Hunters :
        (hunt[h].pc = "done" /\ ~hunt[h].stop_requested)
            => hunt[h].phases = HuntPhases

NextHunt ==
    \/ StartHiddenHunt
    \/ StopHiddenHunt
    \/ \E h \in Hunters : HuntEnters(h)
    \/ \E h \in Hunters, found \in BOOLEAN : HuntPhaseEnds(h, found)
    \/ \E h \in Hunters, a \in Addrs : HuntProcessed(h, a)

\* ================================================================= SpecAlert
\* alert_target_found and its two callers: process_found_device (a sighting
\* by a scan, a sweep or a tracking cycle) and check_target_and_alert (the
\* get-info and get-name requests).  The callers run in different threads;
\* a call reads target_last_sms_alert at line 5433 and writes it at 5438.

\* CONFIG['SMS_ALERT_INTERVAL'], seconds
SMS_ALERT_INTERVAL == 60

\* threads that may be inside alert_target_found
MaxAlerters == 2

Alerters == 1..MaxAlerters

\* SMS alerts followed
MaxSms == 3

\* steps of the clock followed, of half an interval each
MaxTicks == 4

HalfInterval == SMS_ALERT_INTERVAL \div 2

\* time.time() is far from 0: an address with no entry in
\* target_last_sms_alert (read as 0, line 5433) is always due.
FirstInstant == SMS_ALERT_INTERVAL

NoAlert == [pc |-> "idle", bd_addr |-> NoneV, is_new |-> FALSE,
            first |-> FALSE, now |-> 0, last_sms_time |-> 0]

InitAlert ==
    /\ now = FirstInstant
    /\ target_last_sms_alert = EmptyMap
    /\ sms = << >>
    /\ alert = [t \in Alerters |-> NoAlert]

\* time passes
ClockTick ==
    /\ now < FirstInstant + MaxTicks * HalfInterval
    /\ now' = now + HalfInterval
    /\ UNCHANGED <<target_last_sms_alert, sms, alert, scanVars, regVars,
                   trackVars, state, estVars, dirVars, surveyVars, mergeVars,
                   huntVars>>

\* alert_target_found(device, is_new), lines 5405-5434: the time and the
\* time of the last SMS for the address are read.  first: the address was
\* not in the registry when the caller saw it.
AlertEntered(a, is_new, first) ==
    [pc |-> "due", bd_addr |-> a, is_new |-> is_new, first |-> first,
     now |-> now,
     last_sms_time |-> IF HasKey(target_last_sms_alert, a)
                          THEN target_last_sms_alert[a] ELSE 0]

\* process_found_device(), lines 5470-5590, for a device seen without a
\* signal strength: the record is created or updated, is_target is set
\* from the targets table, and a target is handed to
\* alert_target_found(devices[bd_addr], is_new=is_new).
Sighting(t, a) ==
    /\ alert[t].pc = "idle"
    /\ devices' = process_found_device(devices, a,
                      [device_type |-> "ble", device_name |-> NoneV,
                       rssi |-> NoRssi],
                      get_btmon_device_info(a, TRUE), NoRssi)
    /\ is_target' = Put(is_target, a, a \in targets)
    /\ alert' = IF a \in targets
                   THEN [alert EXCEPT ![t] =
                           AlertEntered(a, ~HasKey(devices, a),
                                        ~HasKey(devices, a))]
                   ELSE alert
    /\ UNCHANGED <<now, target_last_sms_alert, sms, targets, merge, emitter,
                   writer, btmon_device_cache, btmon_rssi_cache,
                   rssi_history, current_location, ctl_type, scanVars,
                   trackVars, state, estVars, dirVars, surveyVars, huntVars>>

\* check_target_and_alert(), lines 4240-4258, called by get_device_info and
\* get_device_name: for an address of the targets table the record (if
\* any) is flagged and alert_target_found(device, is_new=True) is called.
InfoLookup(t, a) ==
    /\ alert[t].pc = "idle"
    /\ a \in targets
    /\ is_target' = IF HasKey(is_target, a)
                       THEN [is_target EXCEPT ![a] = TRUE] ELSE is_target
    /\ alert' = [alert EXCEPT ![t] =
                   AlertEntered(a, TRUE, ~HasKey(devices, a))]
    /\ UNCHANGED <<now, target_last_sms_alert, sms, targets, merge, emitter,
                   writer, regVars, scanVars, trackVars, state, estVars,
                   dirVars, surveyVars, huntVars>>

\* lines 5436-5438
ShouldSendSms(al) ==
    al.is_new \/ (al.now - al.last_sms_time) >= SMS_ALERT_INTERVAL

\* alert_target_found(), lines 5436-5453: the decision, the write of
\* target_last_sms_alert and the SMS to every active number.
AlertDecided(t) ==
    /\ alert[t].pc = "due"
    /\ Len(sms) < MaxSms
    /\ IF ShouldSendSms(alert[t])
          THEN /\ target_last_sms_alert' =
                      Put(target_last_sms_alert, alert[t].bd_addr,
                          alert[t].now)
               /\ sms' = Append(sms, [bd_addr |-> alert[t].bd_addr,
                                      time |-> alert[t].now,
                                      is_new |-> alert[t].is_new,
                                      first |-> alert[t].first])
          ELSE UNCHANGED <<target_last_sms_alert, sms>>
    /\ alert' = [alert EXCEPT ![t] = NoAlert]
    /\ UNCHANGED <<now, scanVars, regVars, trackVars, state, estVars,
                   dirVars, surveyVars, mergeVars, huntVars>>

\* C38: an SMS for an address is sent only on a first sighting (the address
\* was not in the registry) or at least SMS_ALERT_INTERVAL seconds after
\* the previous SMS for that address; and two SMS for recurring sightings
\* of one address are at least that interval apart.
C38_SmsRateLimited ==
    \A j \in DOMAIN sms :
        \A i \in 1..(j - 1) :
            (sms[i].bd_addr = sms[j].bd_addr
                /\ (~sms[j].first \/ (~sms[i].is_new /\ ~sms[j].is_new)))
            => sms[j].time - sms[i].time >= SMS_ALERT_INTERVAL

NextAlert ==
    \/ ClockTick
    \/ \E a \in Addrs : AddTarget(a)
    \/ \E t \in Alerters, a \in Addrs : Sighting(t, a)
    \/ \E t \in Alerters, a \in Addrs : InfoLookup(t, a)
    \/ \E t \in Alerters : AlertDecided(t)

\* ================================================================ SpecReport
\* The trace parser on events that report more than one device: an LE
\* Advertising Report or an Inquiry Result with several entries carries one
\* address line per entry, each followed by the entry's field lines.

\* the addresses an event can report
TraceAddrs == Targets

\* C39: the fields the parser holds for saving belong to the address it
\* holds: when an address line replaces address A by another address B,
\* the signal strength and the name parsed under A do not stay in the
\* record that will be saved for B.
C39_FieldsStayWithAddress ==
    [][(/\ state.current_addr # NoneV
        /\ state'.current_addr \notin {NoneV, state.current_addr})
          => /\ state'.current_device.rssi = NoRssi
             /\ state'.current_device.device_name = Absent]_vars

NextReport ==
    \/ \E kind \in HeaderKinds : HeaderLine(kind)
    \/ \E a \in TraceAddrs, form \in AddressForms : AddressLine(a, form)
    \/ \E kind \in IndicatorKinds : IndicatorLine(kind)
    \/ \E r \in RssiVals : RssiLine(r)
    \/ \E n \in RealNames, e \in BOOLEAN : NameLine(n, e)
    \/ TraceEnd

\* ============================================================ specifications

Init ==
    /\ InitScan /\ InitReg /\ InitTrack /\ InitParser /\ InitEst
    /\ InitDir /\ InitSurvey /\ InitMerge /\ InitLocate /\ InitHunt
    /\ InitAlert

\* Init with the capability queries of the device fixed
InitOneDevice == Init /\ ctl_type = [a \in Addrs |-> "unknown"]

SpecScan == Init /\ [][NextScan]_vars

SpecTrack == Init /\ [][NextTrack]_vars

SpecMerge == Init /\ [][NextMerge]_vars
SpecTrace == Init /\ [][NextTrace]_vars
SpecEst == InitOneDevice /\ [][NextEst]_vars
SpecDir == InitOneDevice /\ [][NextDir]_vars
SpecSurvey == InitOneDevice /\ [][NextSurvey]_vars
SpecSweep == InitOneDevice /\ [][NextSweep]_vars
SpecRace == InitOneDevice /\ [][NextRace]_vars
SpecWatch == InitOneDevice /\ [][NextWatch]_vars
SpecLocate == InitOneDevice /\ [][NextLocate]_vars
SpecObserve == InitOneDevice /\ [][NextObserve]_vars
SpecHunt == InitOneDevice /\ [][NextHunt]_vars
SpecAlert == InitOneDevice /\ [][NextAlert]_vars
SpecReport == InitOneDevice /\ [][NextReport]_vars

====
